---- MODULE Spec2Model ----
(***************************************************************************)
(* Agent runtime of codebuff: the agent loop (loopAgentSteps), the step    *)
(* executor (runAgentStep), the programmatic step handler                  *)
(* (runProgrammaticStep) and the message store helpers they use.           *)
(***************************************************************************)
EXTENDS Integers, Sequences, FiniteSets, TLC

\* ------------------------------------------------------------------ bounds
\* Largest initial stepsRemaining of a run.
MaxSteps == 1
\* Largest number of values a programmatic handler yields in one run.
MaxYields == 2
\* Largest number of tool calls / tool results of one turn (shouldAgentEndTurn).
MaxCalls == 2

\* ----------------------------------------------------------- message store
NoTTL == "undefined"

Msg(role, tag, content, ttl, keep, id) ==
  [role |-> role, tag |-> tag, content |-> content, timeToLive |-> ttl,
   keepDuringTruncation |-> keep, toolCallId |-> id]

\* withSystemTags(str)
withSystemTags(str) == "<system>" \o str \o "</system>"

UserPromptMsg(p) == Msg("user", "USER_PROMPT", p, NoTTL, TRUE, 0)
InstructionsMsg == Msg("user", "INSTRUCTIONS_PROMPT", "instructions", NoTTL, FALSE, 0)
StepPromptMsg == Msg("user", "STEP_PROMPT", "step prompt", "agentStep", TRUE, 0)
StepLimitMsg ==
  Msg("user", "",
      withSystemTags("The assistant has responded too many times in a row. The assistant's turn has automatically been ended."),
      NoTTL, FALSE, 0)
OutputSchemaMsg ==
  Msg("user", "", withSystemTags("You must use the set_output tool"), NoTTL, TRUE, 0)
AssistantTextMsg(text) == Msg("assistant", "", text, NoTTL, FALSE, 0)
ToolCallMsg(id) == Msg("assistant", "tool-call", "", NoTTL, FALSE, id)
ToolResultMsg(id) == Msg("tool", "tool-result", "", NoTTL, FALSE, id)
SummaryMsg(fullResponse) ==
  Msg("user", "", withSystemTags("The following is a summary: " \o fullResponse),
      NoTTL, FALSE, 0)
\* A message a caller hands in with a time to live.
EphemeralUserMsg == Msg("user", "", "ephemeral", "userPrompt", FALSE, 0)

KeepsAt(m, endOf) ==
  IF m.timeToLive = NoTTL THEN TRUE
  ELSE IF m.timeToLive = "agentStep" THEN FALSE
  ELSE IF m.timeToLive = "userPrompt" /\ endOf = "userPrompt" THEN FALSE
  ELSE TRUE

expireMessagesKeepUserPrompt(messages, endOf) ==
  SelectSeq(messages, LAMBDA m : m.timeToLive # "agentStep")

expireMessagesOnlyAtUserPrompt(messages, endOf) ==
  IF endOf = "userPrompt"
  THEN SelectSeq(messages, LAMBDA m : m.timeToLive = NoTTL)
  ELSE messages

expireMessages(messages, endOf) ==
  SelectSeq(messages, LAMBDA m : KeepsAt(m, endOf))

\* ------------------------------------------------------------ step executor
STEP_WARNING_MESSAGE == "STEP_WARNING_MESSAGE"

\* Tool names a turn may use.  The soft set is a constant of the common
\* package; its members here are the ones the glossary describes.
ToolNames == {"write_file", "think_deeply", "set_output", "task_completed", "end_turn"}
TOOLS_WHICH_WONT_FORCE_NEXT_STEP == {"think_deeply", "set_output"}

Range(s) == {s[i] : i \in 1..Len(s)}

shouldAgentEndTurnNoErrorCheck(toolCalls, toolResults, hadToolCallError, toolNames) ==
  LET hasNoToolResults ==
        /\ Len(SelectSeq(toolCalls, LAMBDA c : c \notin TOOLS_WHICH_WONT_FORCE_NEXT_STEP)) = 0
        /\ Len(SelectSeq(toolResults, LAMBDA r : r \notin TOOLS_WHICH_WONT_FORCE_NEXT_STEP)) = 0
      hasTaskCompleted ==
        \E i \in 1..Len(toolCalls) : toolCalls[i] = "task_completed" \/ toolCalls[i] = "end_turn"
      requiresExplicitCompletion == "task_completed" \in toolNames
  IN IF requiresExplicitCompletion THEN hasTaskCompleted
     ELSE hasTaskCompleted \/ hasNoToolResults

shouldAgentEndTurn(toolCalls, toolResults, hadToolCallError, toolNames) ==
  LET hasNoToolResults ==
        /\ Len(SelectSeq(toolCalls, LAMBDA c : c \notin TOOLS_WHICH_WONT_FORCE_NEXT_STEP)) = 0
        /\ Len(SelectSeq(toolResults, LAMBDA r : r \notin TOOLS_WHICH_WONT_FORCE_NEXT_STEP)) = 0
        /\ ~hadToolCallError
      hasTaskCompleted ==
        \E i \in 1..Len(toolCalls) : toolCalls[i] = "task_completed" \/ toolCalls[i] = "end_turn"
      requiresExplicitCompletion == "task_completed" \in toolNames
  IN IF requiresExplicitCompletion THEN hasTaskCompleted
     ELSE hasTaskCompleted \/ hasNoToolResults


\* ------------------------------------------------- agent loop: the state
Errors == {"e402", "e500", "eplain"}
\* statusCode carried by an exception; 0 stands for "no statusCode".
StatusCodeOf(e) == IF e = "e402" THEN 402 ELSE IF e = "e500" THEN 500 ELSE 0

Template(handleSteps, outputSchema, requiresTaskCompleted) ==
  [handleSteps |-> handleSteps, outputSchema |-> outputSchema,
   requiresTaskCompleted |-> requiresTaskCompleted]
\* The agent templates of the runs: without a handler every combination of
\* output schema and task_completed tool, with a handler the one that has an
\* output schema.
Templates ==
  { Template(FALSE, FALSE, FALSE), Template(FALSE, TRUE, FALSE),
    Template(FALSE, FALSE, TRUE),  Template(FALSE, TRUE, TRUE),
    Template(TRUE, TRUE, FALSE) }

ToolNamesOf(t) ==
  {"write_file", "think_deeply", "set_output", "end_turn"}
    \cup (IF t.requiresTaskCompleted THEN {"task_completed"} ELSE {})

\* What the stream processor hands back for one streamed turn.
TurnOutcomes ==
  { [toolCalls |-> <<>>, hadToolCallError |-> FALSE],
    [toolCalls |-> <<>>, hadToolCallError |-> TRUE],
    [toolCalls |-> <<"write_file">>, hadToolCallError |-> FALSE],
    [toolCalls |-> <<"set_output">>, hadToolCallError |-> FALSE],
    [toolCalls |-> <<"task_completed">>, hadToolCallError |-> FALSE] }

\* The prompt of the call: none, or a user prompt.
Prompts == {"undefined", "fix the bug"}

\* The history of the state the caller passes in.
InputHistories == { <<EphemeralUserMsg>> }

NoOutput == [type |-> "none", message |-> "", statusCode |-> 0]
CancelledOutput == [type |-> "error", message |-> "Run cancelled by user", statusCode |-> 0]
RunErrorOutput(e) ==
  [type |-> "error", message |-> "Agent run error: " \o e, statusCode |-> StatusCodeOf(e)]
\* getAgentOutput(agentState, agentTemplate): read from the state or derived
\* by the template's output rule; it never sees the abort signal.
getAgentOutput(st, t) ==
  IF st.output = "undefined"
  THEN [type |-> "lastMessage", message |-> "", statusCode |-> 0]
  ELSE [type |-> "structuredOutput", message |-> st.output, statusCode |-> 0]

VARIABLES
  pc,                    \* position of loopAgentSteps
  aborted,               \* signal.aborted
  template,              \* the resolved agentTemplate
  prompt,                \* currentPrompt: "undefined" or the user's prompt
  clearUserPrompt,       \* clearUserPromptMessagesAfterResponse (default true)
  input,                 \* initialAgentState as the caller passed it
  agentState,            \* currentAgentState
  stepRes,               \* what runAgentStep returned, before it is adopted
  shouldEndTurn,
  hasRetriedOutputSchema,
  totalSteps,
  nResponses,            \* TRUE iff nResponses is defined
  n,                     \* TRUE iff generateN of this iteration is defined
  error,                 \* "none", "thrown" once the catch block is entered, then the exception
  result,                \* what the caller of loopAgentSteps gets
  storage,               \* calls made on the storage contract, in order
  sink,                  \* chunks passed to onResponseChunk, in order
  runIdToGenerator,      \* runIds with a live coroutine
  runIdToStepAll,
  prog,                  \* locals of runProgrammaticStep
  nextId,                \* next fresh toolCallId
  \* bookkeeping for the properties
  yields, generatorsCreated, llmRequests, iterations, llmAfterAbort, forcedTurns,
  loopExit,              \* how the main loop was left: "none", "normal", "exception"
  turn,                  \* one call of shouldAgentEndTurn: its arguments and its result
  tools,                 \* the tool dispatcher serving the tool calls of one turn
  spawn,                 \* one spawn of a child agent by the spawn_agents handler
  sub,                   \* the subagents being executed and the events they put on the sink
  store,                 \* a message history and the last Message Store operation on it
  credits,               \* the credit counters of a run and of its children
  grid,                  \* a list of agent blocks and the status summary computed for it
  handler,               \* one programmatic turn: what the handler yields and is handed
  cache,                 \* the generator cache shared by parallel runs
  childState             \* an agent state built by createAgentState

vars ==
  << pc, aborted, template, prompt, clearUserPrompt, input, agentState, stepRes,
     shouldEndTurn, hasRetriedOutputSchema, totalSteps, nResponses, n, error,
     result, storage, sink, runIdToGenerator, runIdToStepAll, prog, nextId,
     yields, generatorsCreated, llmRequests, iterations, llmAfterAbort, forcedTurns,
     loopExit, turn, tools, spawn, sub, store, credits, grid, handler, cache, childState >>

RunId == 1

MkState(rid, hist, steps, out) ==
  [runId |-> rid, messageHistory |-> hist, stepsRemaining |-> steps, output |-> out]

NoStepRes == [agentState |-> MkState(0, <<>>, 0, "undefined"),
              shouldEndTurn |-> FALSE, nResponses |-> FALSE]
NoProg == [stepNumber |-> 0, kind |-> "none", tool |-> "none", include |-> TRUE, id |-> 0]
Pending == [kind |-> "pending", agentState |-> MkState(0, <<>>, 0, "undefined"),
            output |-> NoOutput, statusCode |-> 0]
Returned(st, out) == [kind |-> "returned", agentState |-> st, output |-> out, statusCode |-> 0]
Threw(e) == [kind |-> "threw", agentState |-> MkState(0, <<>>, 0, "undefined"),
             output |-> NoOutput, statusCode |-> StatusCodeOf(e)]

StorageCall(op, status, stepNumber, abortedNow, exit) ==
  [op |-> op, runId |-> RunId, status |-> status, stepNumber |-> stepNumber,
   aborted |-> abortedNow, loopExit |-> exit]

NoTurn == [toolCalls |-> <<>>, toolResults |-> <<>>, hadToolCallError |-> FALSE,
           called |-> FALSE, result |-> FALSE]

\* The dispatcher before any tool call of the turn has reached it.
NoTools == [caller |-> "none", excludeToolFromMessageHistory |-> FALSE,
            skipDirectResultPush |-> FALSE, calls |-> <<>>, events |-> <<>>,
            toolCalls |-> <<>>, toolResults |-> <<>>, messageHistory |-> <<>>,
            requests |-> <<>>]

NoAgentId == [publisherId |-> "", agentId |-> "", version |-> ""]

\* No subagent has been spawned.
NoSub == [stack |-> <<>>, events |-> <<>>, spawned |-> 0, thrown |-> {}]

\* No Message Store operation has been applied.
NoStore == [op |-> "none", messages |-> <<>>, input |-> <<>>, output |-> <<>>,
            endOf |-> "none", systemTokens |-> 0, maxTotalTokens |-> 0]

\* No cost has been reported.
\* costs flips at every call of a cost callback; last is that call.
NoCredits == [agents |-> <<>>, costs |-> 0, last |-> [agent |-> 0, credits |-> 0, via |-> "none"]]

\* No agent block is shown.
NoGrid ==
  [ agents |-> <<>>, streamingAgents |-> {},
    summary |-> [n |-> 0, noun |-> "", word |-> "", m |-> 0, word2 |-> ""] ]

\* No programmatic turn is running.
NoHandler ==
  [ pc |-> "none", toolResults |-> <<>>, toolResult |-> <<>>, received |-> <<>>,
    due |-> <<>>, produced |-> <<>>, yielded |-> "none",
    call |-> [valid |-> FALSE, includeToolCall |-> FALSE, toolCallId |-> 0],
    messageHistory |-> <<>>, before |-> <<>>, executed |-> {}, yields |-> 0, nextId |-> 1 ]

\* No run uses the generator cache.
NoCache ==
  [ runIdToGenerator |-> <<>>, runIdToStepAll |-> {}, runs |-> <<>>,
    last |-> [by |-> 0, keys |-> {}] ]

\* No child state has been built.
NoChild == [pc |-> "none"]

Late == << handler, cache, childState >>

LateIdle ==
  /\ handler = NoHandler
  /\ cache = NoCache
  /\ childState = NoChild

SideIdle ==
  /\ sub = NoSub
  /\ store = NoStore
  /\ credits = NoCredits
  /\ grid = NoGrid
  /\ LateIdle

\* The spawn_agents handler before it has been given a child to spawn.
NoSpawn == [pc |-> "none", parentId |-> "", spawnableAgents |-> <<>>,
            child |-> NoAgentId, found |-> FALSE, agentType |-> NoAgentId,
            error |-> "none", events |-> <<>>, childRuns |-> 0]

Init ==
  /\ pc = "resolve"
  /\ turn = NoTurn
  /\ tools = NoTools
  /\ spawn = NoSpawn
  /\ SideIdle
  /\ aborted = FALSE
  /\ template \in Templates
  /\ prompt \in Prompts
  /\ clearUserPrompt = TRUE
  /\ \E h \in InputHistories, s \in 0..MaxSteps :
       input = MkState(0, h, s, "undefined")
  /\ agentState = input
  /\ stepRes = NoStepRes
  /\ shouldEndTurn = FALSE
  /\ hasRetriedOutputSchema = FALSE
  /\ totalSteps = 0
  /\ nResponses = FALSE
  /\ n = FALSE
  /\ error = "none"
  /\ result = Pending
  /\ storage = <<>>
  /\ sink = <<>>
  /\ runIdToGenerator = {}
  /\ runIdToStepAll = {}
  /\ prog = NoProg
  /\ nextId = 1
  /\ yields = 0
  /\ generatorsCreated = 0
  /\ llmRequests = 0
  /\ iterations = 0
  /\ llmAfterAbort = FALSE
  /\ forcedTurns = 0
  /\ loopExit = "none"

LoopLocals == << shouldEndTurn, hasRetriedOutputSchema, totalSteps, nResponses, n, prompt >>
Registry == << runIdToGenerator, runIdToStepAll, prog, yields, generatorsCreated >>
Counters == << llmRequests, iterations, llmAfterAbort, forcedTurns >>
Ghost == << Counters, loopExit >>
Side == << sub, store, credits, grid >>
Params == << template, input, turn, tools, spawn, Side, Late >>

\* The abort signal fires (at any suspension point, or before the call).
Abort ==
  /\ pc # "done"
  /\ ~aborted
  /\ aborted' = TRUE
  /\ UNCHANGED << pc, Params, clearUserPrompt, agentState, stepRes, LoopLocals, error, result,
                  storage, sink, Registry, nextId, Ghost >>

\* ------------------------------------------- agent loop: initialization
\* getAgentTemplate finds no template: loopAgentSteps throws before anything.
TemplateNotFound ==
  /\ pc = "resolve"
  /\ pc' = "done"
  /\ result' = Threw("eplain")
  /\ UNCHANGED << aborted, Params, clearUserPrompt, agentState, stepRes, LoopLocals, error,
                  storage, sink, Registry, nextId, Ghost >>

\* signal.aborted is already set: return without contacting storage.
CancelledBeforeStart ==
  /\ pc = "resolve"
  /\ aborted
  /\ pc' = "done"
  /\ result' = Returned(input, CancelledOutput)
  /\ UNCHANGED << aborted, Params, clearUserPrompt, agentState, stepRes, LoopLocals, error,
                  storage, sink, Registry, nextId, Ghost >>

\* startAgentRun is called whatever the signal says.
StartAgentRunUnchecked ==
  /\ pc = "resolve"
  /\ storage' = Append(storage, StorageCall("startAgentRun", "active", 0, FALSE, "none"))
  /\ pc' = "starting"
  /\ UNCHANGED << aborted, Params, clearUserPrompt, agentState, stepRes, LoopLocals, error,
                  result, sink, Registry, nextId, Ghost >>

StartAgentRun ==
  /\ pc = "resolve"
  /\ ~aborted
  /\ storage' = Append(storage, StorageCall("startAgentRun", "active", 0, FALSE, "none"))
  /\ pc' = "starting"
  /\ UNCHANGED << aborted, Params, clearUserPrompt, agentState, stepRes, LoopLocals, error,
                  result, sink, Registry, nextId, Ghost >>

StartAgentRunReturns ==
  /\ pc = "starting"
  /\ agentState' = [agentState EXCEPT !.runId = RunId]
  /\ pc' = "assemble"
  /\ UNCHANGED << aborted, Params, clearUserPrompt, stepRes, LoopLocals, error, result,
                  storage, sink, Registry, nextId, Ghost >>

\* startAgentRun throws, or returns no runId ('Failed to start agent run').
StartAgentRunFails ==
  /\ pc = "starting"
  /\ \E e \in Errors : result' = Threw(e)
  /\ pc' = "done"
  /\ UNCHANGED << aborted, Params, clearUserPrompt, agentState, stepRes, LoopLocals, error,
                  storage, sink, Registry, nextId, Ghost >>

InitialMessages ==
  input.messageHistory
    \o (IF prompt # "undefined" THEN <<UserPromptMsg(prompt)>> ELSE <<>>)
    \o <<InstructionsMsg>>

\* Instructions prompt, system prompt, tool set and initial history.
AssemblePrompts ==
  /\ pc = "assemble"
  /\ agentState' = [agentState EXCEPT !.messageHistory = InitialMessages]
  /\ pc' = "loopTop"
  /\ UNCHANGED << aborted, Params, clearUserPrompt, stepRes, LoopLocals, error, result,
                  storage, sink, Registry, nextId, Ghost >>

\* getAgentPrompt / buildAgentToolSet / getToolSet throw: these calls are
\* made before the try block, so the exception leaves loopAgentSteps.
AssembleThrows ==
  /\ pc = "assemble"
  /\ \E e \in Errors : result' = Threw(e)
  /\ pc' = "done"
  /\ UNCHANGED << aborted, Params, clearUserPrompt, agentState, stepRes, LoopLocals, error,
                  storage, sink, Registry, nextId, Ghost >>

\* ------------------------------------------------ agent loop: main loop
LoopTop ==
  /\ pc = "loopTop"
  /\ totalSteps' = totalSteps + 1
  /\ iterations' = iterations + 1
  /\ n' = FALSE
  /\ IF aborted
     THEN pc' = "postLoop" /\ loopExit' = "normal"
     ELSE pc' = "tokenCount" /\ loopExit' = loopExit
  /\ UNCHANGED << aborted, Params, clearUserPrompt, agentState, stepRes, shouldEndTurn,
                  hasRetriedOutputSchema, nResponses, prompt, error, result,
                  storage, sink, Registry, nextId, llmRequests, llmAfterAbort,
                  forcedTurns >>

\* Step prompt and token count of the iteration.
TokenCountReturns ==
  /\ pc = "tokenCount"
  /\ pc' = IF template.handleSteps THEN "prog" ELSE "schema"
  /\ UNCHANGED << aborted, Params, clearUserPrompt, agentState, stepRes, LoopLocals, error,
                  result, storage, sink, Registry, nextId, Ghost >>

TokenCountThrows ==
  /\ pc = "tokenCount"
  /\ error' = "thrown"
  /\ pc' = "catch"
  /\ loopExit' = "exception"
  /\ UNCHANGED << aborted, Params, clearUserPrompt, agentState, stepRes, LoopLocals, result,
                  storage, sink, Registry, nextId, Counters >>

\* The retry is made whenever the output is missing, retried before or not.
OutputSchemaCheckEveryTime ==
  /\ pc = "schema"
  /\ IF /\ template.outputSchema
        /\ agentState.output = "undefined"
        /\ shouldEndTurn
     THEN /\ hasRetriedOutputSchema' = TRUE
          /\ agentState' = [agentState EXCEPT
               !.messageHistory = Append(@, OutputSchemaMsg)]
          /\ shouldEndTurn' = FALSE
          /\ pc' = "llm"
          /\ loopExit' = loopExit
     ELSE /\ UNCHANGED << hasRetriedOutputSchema, agentState, shouldEndTurn >>
          /\ IF shouldEndTurn
             THEN pc' = "postLoop" /\ loopExit' = "normal"
             ELSE pc' = "llm" /\ loopExit' = loopExit
  /\ UNCHANGED << aborted, Params, clearUserPrompt, stepRes, totalSteps, nResponses, n, prompt,
                  error, result, storage, sink, Registry, nextId, Counters >>

\* Output-schema enforcement, then the end-of-turn test.
OutputSchemaCheck ==
  /\ pc = "schema"
  /\ IF /\ template.outputSchema
        /\ agentState.output = "undefined"
        /\ shouldEndTurn
        /\ ~hasRetriedOutputSchema
     THEN /\ hasRetriedOutputSchema' = TRUE
          /\ agentState' = [agentState EXCEPT
               !.messageHistory = Append(@, OutputSchemaMsg)]
          /\ shouldEndTurn' = FALSE
          /\ pc' = "llm"
          /\ loopExit' = loopExit
     ELSE /\ UNCHANGED << hasRetriedOutputSchema, agentState, shouldEndTurn >>
          /\ IF shouldEndTurn
             THEN pc' = "postLoop" /\ loopExit' = "normal"
             ELSE pc' = "llm" /\ loopExit' = loopExit
  /\ UNCHANGED << aborted, Params, clearUserPrompt, stepRes, totalSteps, nResponses, n, prompt,
                  error, result, storage, sink, Registry, nextId, Counters >>

\* --------------------------------------------- step executor: runAgentStep
\* prompt.toLowerCase()
toLowerCase(p) ==
  CASE p = "/Compact" -> "/compact"
    [] p = "COMPACT" -> "compact"
    [] p = "/COMPACT please" -> "/compact please"
    [] OTHER -> p

handleCompactCommandCaseSensitive(p, st, fullResponse) ==
  IF p = "/compact" \/ p = "compact"
  THEN [st EXCEPT !.messageHistory =
          <<Msg("user", "", withSystemTags("The following is a summary: " \o fullResponse),
                NoTTL, FALSE, 0)>>]
  ELSE st

handleCompactCommand(p, st, fullResponse) ==
  LET wasCompacted ==
        /\ p # "undefined"
        /\ (toLowerCase(p) = "/compact" \/ toLowerCase(p) = "compact")
  IN IF wasCompacted
     THEN [st EXCEPT !.messageHistory = <<SummaryMsg(fullResponse)>>]
     ELSE st

\* The test runAgentStep makes first: agentState.stepsRemaining <= 0.
stepLimitReachedNever(st) == FALSE

stepLimitReached(st) == st.stepsRemaining <= 0

\* stepsRemaining <= 0: the turn is force-ended without contacting the LLM.
handleStepLimitExceeded(st) ==
  [agentState |-> [st EXCEPT !.messageHistory =
                     Append(expireMessages(st.messageHistory, "userPrompt"), StepLimitMsg)],
   shouldEndTurn |-> TRUE,
   nResponses |-> FALSE]

StepLimitExceeded ==
  /\ pc = "llm"
  /\ stepLimitReached(agentState)
  /\ sink' = Append(sink, STEP_WARNING_MESSAGE \o "\n\n")
  /\ stepRes' = handleStepLimitExceeded(agentState)
  /\ forcedTurns' = forcedTurns + 1
  /\ pc' = "addStep"
  /\ UNCHANGED << aborted, Params, clearUserPrompt, agentState, LoopLocals, error, result,
                  storage, Registry, nextId, llmRequests, iterations,
                  llmAfterAbort, loopExit >>

\* getAgentPrompt for the step prompt throws.
StepPromptThrows ==
  /\ pc = "llm"
  /\ ~stepLimitReached(agentState)
  /\ error' = "thrown"
  /\ pc' = "catch"
  /\ loopExit' = "exception"
  /\ UNCHANGED << aborted, Params, clearUserPrompt, agentState, stepRes, LoopLocals, result,
                  storage, sink, Registry, nextId, Counters >>

\* The step prompt is appended and the request goes to the LLM: the stream
\* (getAgentStreamFromTemplate) or, when n is defined, promptAiSdk.
SendLLMRequest ==
  /\ pc = "llm"
  /\ ~stepLimitReached(agentState)
  /\ agentState' = [agentState EXCEPT !.messageHistory =
       Append(expireMessages(@, "agentStep"), StepPromptMsg)]
  /\ llmRequests' = llmRequests + 1
  /\ llmAfterAbort' = (llmAfterAbort \/ aborted)
  /\ pc' = IF n THEN "promptN" ELSE "stream"
  /\ UNCHANGED << aborted, Params, clearUserPrompt, stepRes, LoopLocals, error, result, storage,
                  sink, Registry, nextId, iterations, forcedTurns, loopExit >>

\* Messages the stream processor appends for one streamed turn: the
\* assistant text, then per tool call the call and its result.
RECURSIVE StreamMessages(_, _)
StreamMessages(toolCalls, firstId) ==
  IF toolCalls = <<>> THEN <<>>
  ELSE << ToolCallMsg(firstId), ToolResultMsg(firstId) >>
         \o StreamMessages(Tail(toolCalls), firstId + 1)

FullResponse == "response"

StepsAfterTurn(steps) == steps - 1

\* The state runAgentStep returns after a streamed turn.
AfterStream(st, o, p, toolNames, firstId) ==
  LET hist == st.messageHistory \o <<AssistantTextMsg(FullResponse)>>
                \o StreamMessages(o.toolCalls, firstId)
      out == IF \E i \in 1..Len(o.toolCalls) : o.toolCalls[i] = "set_output"
             THEN "set" ELSE st.output
      expired == [st EXCEPT !.messageHistory = expireMessages(hist, "agentStep"),
                            !.output = out]
      compacted == handleCompactCommand(p, expired, FullResponse)
  IN [mutated |-> expired,
      agentState |-> [compacted EXCEPT !.stepsRemaining = StepsAfterTurn(@)],
      shouldEndTurn |-> shouldAgentEndTurn(o.toolCalls, o.toolCalls,
                                           o.hadToolCallError, toolNames),
      nResponses |-> FALSE]

StreamReturns ==
  /\ pc = "stream"
  /\ \E o \in TurnOutcomes :
       /\ Range(o.toolCalls) \subseteq ToolNamesOf(template)
       /\ LET r == AfterStream(agentState, o, prompt, ToolNamesOf(template), nextId)
          IN /\ agentState' = r.mutated
             /\ stepRes' = [agentState |-> r.agentState,
                            shouldEndTurn |-> r.shouldEndTurn,
                            nResponses |-> r.nResponses]
       /\ nextId' = nextId + Len(o.toolCalls)
  /\ pc' = "addStep"
  /\ UNCHANGED << aborted, Params, clearUserPrompt, LoopLocals, error, result, storage, sink,
                  Registry, Ghost >>

\* The transport fails, or a tool handler of the turn throws.
StreamThrows ==
  /\ pc = "stream"
  /\ error' = "thrown"
  /\ pc' = "catch"
  /\ loopExit' = "exception"
  /\ UNCHANGED << aborted, Params, clearUserPrompt, agentState, stepRes, LoopLocals, result,
                  storage, sink, Registry, nextId, Counters >>

\* handleMultipleResponses: n completions come back; the turn does not end.
handleMultipleResponses(st) ==
  [agentState |-> st, shouldEndTurn |-> FALSE, nResponses |-> TRUE]

PromptNReturns ==
  /\ pc = "promptN"
  /\ stepRes' = handleMultipleResponses(agentState)
  /\ pc' = "addStep"
  /\ UNCHANGED << aborted, Params, clearUserPrompt, agentState, LoopLocals, error, result,
                  storage, sink, Registry, nextId, Ghost >>

\* promptAiSdk throws, or its answer is no JSON array although n > 1.
PromptNThrows ==
  /\ pc = "promptN"
  /\ error' = "thrown"
  /\ pc' = "catch"
  /\ loopExit' = "exception"
  /\ UNCHANGED << aborted, Params, clearUserPrompt, agentState, stepRes, LoopLocals, result,
                  storage, sink, Registry, nextId, Counters >>

\* The step is recorded and the loop adopts what runAgentStep returned.
AddAgentStepReturns ==
  /\ pc = "addStep"
  /\ storage' = Append(storage,
       StorageCall("addAgentStep", "completed", totalSteps, FALSE, "none"))
  /\ agentState' = stepRes.agentState
  /\ shouldEndTurn' = stepRes.shouldEndTurn
  /\ nResponses' = stepRes.nResponses
  /\ prompt' = "undefined"
  /\ pc' = "loopTop"
  /\ UNCHANGED << aborted, Params, clearUserPrompt, stepRes, hasRetriedOutputSchema, totalSteps,
                  n, error, result, sink, Registry, nextId, Ghost >>

AddAgentStepThrows ==
  /\ pc = "addStep"
  /\ storage' = Append(storage,
       StorageCall("addAgentStep", "completed", totalSteps, FALSE, "none"))
  /\ error' = "thrown"
  /\ pc' = "catch"
  /\ loopExit' = "exception"
  /\ UNCHANGED << aborted, Params, clearUserPrompt, agentState, stepRes, LoopLocals, result,
                  sink, Registry, nextId, Counters >>

\* ------------------------------------------------ agent loop: termination
FinishStatus(isAborted, fallback) == IF isAborted THEN "cancelled" ELSE fallback

\* After the loop: expire userPrompt messages, then finishAgentRun.  The
\* caller's clearUserPromptMessagesAfterResponse is read only here, so its
\* value is drawn here.
FinishAgentRun ==
  /\ pc = "postLoop"
  /\ \E clear \in BOOLEAN :
       /\ clearUserPrompt' = clear
       /\ agentState' = [agentState EXCEPT !.messageHistory =
            IF clear THEN expireMessages(@, "userPrompt") ELSE @]
  /\ storage' = Append(storage,
       StorageCall("finishAgentRun", FinishStatus(aborted, "completed"),
                   totalSteps, aborted, loopExit))
  /\ pc' = "finishing"
  /\ UNCHANGED << aborted, Params, stepRes, LoopLocals, error, result, sink,
                  Registry, nextId, Ghost >>

FinishAgentRunReturns ==
  /\ pc = "finishing"
  /\ result' = Returned(agentState, getAgentOutput(agentState, template))
  /\ pc' = "done"
  /\ UNCHANGED << aborted, Params, clearUserPrompt, agentState, stepRes, LoopLocals, error,
                  storage, sink, Registry, nextId, Ghost >>

\* finishAgentRun is awaited inside the try block: its failure is caught.
FinishAgentRunThrows ==
  /\ pc = "finishing"
  /\ error' = "thrown"
  /\ pc' = "catch"
  /\ UNCHANGED << aborted, Params, clearUserPrompt, agentState, stepRes, LoopLocals, result,
                  storage, sink, Registry, nextId, Ghost >>

\* The catch block: finishAgentRun with status cancelled or failed.
CatchFinishAgentRun ==
  /\ pc = "catch"
  /\ storage' = Append(storage,
       StorageCall("finishAgentRun", FinishStatus(aborted, "failed"),
                   totalSteps, aborted, loopExit))
  /\ pc' = "catchFinishing"
  /\ UNCHANGED << aborted, Params, clearUserPrompt, agentState, stepRes, LoopLocals, error,
                  result, sink, Registry, nextId, Ghost >>

\* The catch block returns the error output whatever the statusCode.
CatchReturnsNoRethrow ==
  /\ pc = "catchFinishing"
  /\ \E e \in Errors :
       /\ error' = e
       /\ result' = Returned(agentState, RunErrorOutput(e))
  /\ pc' = "done"
  /\ UNCHANGED << aborted, Params, clearUserPrompt, agentState, stepRes, LoopLocals,
                  storage, sink, Registry, nextId, Ghost >>

\* The rest of the catch block.  The caught exception's message and statusCode
\* are read only here, so which exception it was is drawn here.
CatchReturns ==
  /\ pc = "catchFinishing"
  /\ \E e \in Errors :
       /\ error' = e
       /\ result' = IF StatusCodeOf(e) = 402
                    THEN Threw(e)
                    ELSE Returned(agentState, RunErrorOutput(e))
  /\ pc' = "done"
  /\ UNCHANGED << aborted, Params, clearUserPrompt, agentState, stepRes, LoopLocals,
                  storage, sink, Registry, nextId, Ghost >>

\* finishAgentRun throws inside the catch block: that exception propagates.
CatchFinishThrows ==
  /\ pc = "catchFinishing"
  /\ \E e \in Errors : result' = Threw(e)
  /\ pc' = "done"
  /\ UNCHANGED << aborted, Params, clearUserPrompt, agentState, stepRes, LoopLocals, error,
                  storage, sink, Registry, nextId, Ghost >>

\* ------------------------------------- programmatic step: runProgrammaticStep
\* Tool calls a handler yields: {toolName, includeToolCall}.
HandlerCalls ==
  { [toolName |-> "write_file", includeToolCall |-> FALSE],
    [toolName |-> "set_output", includeToolCall |-> TRUE],
    [toolName |-> "end_turn", includeToolCall |-> TRUE] }

\* clearGenerator(runId)
clearGenerator(gens, stepAll, runId) ==
  [gens |-> gens \ {runId}, stepAll |-> stepAll \ {runId}]

\* runProgrammaticStep returns {agentState, endTurn, stepNumber, generateN}
\* and the loop adopts it.  localEndTurn is the local the finally block reads.
ProgReturn(localEndTurn, endTurn, stepNumber, generateN, gens, stepAll) ==
  /\ n' = generateN
  /\ totalSteps' = stepNumber
  /\ shouldEndTurn' = endTurn
  /\ pc' = "schema"
  /\ prog' = NoProg
  /\ LET c == IF localEndTurn THEN clearGenerator(gens, stepAll, RunId)
              ELSE [gens |-> gens, stepAll |-> stepAll]
     IN /\ runIdToGenerator' = c.gens
        /\ runIdToStepAll' = c.stepAll

ProgrammaticEnterNotStoring ==
  /\ pc = "prog"
  /\ generatorsCreated' =
       IF RunId \in runIdToGenerator THEN generatorsCreated ELSE generatorsCreated + 1
  /\ IF RunId \in runIdToStepAll /\ ~shouldEndTurn
     THEN /\ ProgReturn(FALSE, FALSE, totalSteps, FALSE, runIdToGenerator, runIdToStepAll)
     ELSE /\ runIdToGenerator' = runIdToGenerator
          /\ runIdToStepAll' = runIdToStepAll \ {RunId}
          /\ prog' = [NoProg EXCEPT !.stepNumber = totalSteps]
          /\ pc' = "gen"
          /\ UNCHANGED << n, totalSteps, shouldEndTurn >>
  /\ UNCHANGED << aborted, Params, clearUserPrompt, agentState, stepRes, hasRetriedOutputSchema,
                  nResponses, prompt, error, result, storage, sink, nextId,
                  yields, Ghost >>

ProgrammaticEnterIgnoringStepAll ==
  /\ pc = "prog"
  /\ generatorsCreated' =
       IF RunId \in runIdToGenerator THEN generatorsCreated ELSE generatorsCreated + 1
  /\ runIdToGenerator' = runIdToGenerator \cup {RunId}
  /\ runIdToStepAll' = runIdToStepAll \ {RunId}
  /\ prog' = [NoProg EXCEPT !.stepNumber = totalSteps]
  /\ pc' = "gen"
  /\ UNCHANGED << n, totalSteps, shouldEndTurn >>
  /\ UNCHANGED << aborted, Params, clearUserPrompt, agentState, stepRes, hasRetriedOutputSchema,
                  nResponses, prompt, error, result, storage, sink, nextId,
                  yields, Ghost >>

\* getGenerator / initializeGenerator / setGenerator, then the STEP_ALL test.
ProgrammaticEnter ==
  /\ pc = "prog"
  /\ generatorsCreated' =
       IF RunId \in runIdToGenerator THEN generatorsCreated ELSE generatorsCreated + 1
  /\ LET gens == runIdToGenerator \cup {RunId}
     IN IF RunId \in runIdToStepAll /\ ~shouldEndTurn
        THEN /\ ProgReturn(FALSE, FALSE, totalSteps, FALSE, gens, runIdToStepAll)
        ELSE /\ runIdToGenerator' = gens
             /\ runIdToStepAll' = runIdToStepAll \ {RunId}
             /\ prog' = [NoProg EXCEPT !.stepNumber = totalSteps]
             /\ pc' = "gen"
             /\ UNCHANGED << n, totalSteps, shouldEndTurn >>
  /\ UNCHANGED << aborted, Params, clearUserPrompt, agentState, stepRes, hasRetriedOutputSchema,
                  nResponses, prompt, error, result, storage, sink, nextId,
                  yields, Ghost >>

ProgFrame == << aborted, Params, clearUserPrompt, stepRes, hasRetriedOutputSchema, nResponses,
                prompt, error, result, nextId, generatorsCreated, Ghost >>

\* The coroutine returns: result.done.
GenDone ==
  /\ pc = "gen"
  /\ ProgReturn(TRUE, TRUE, prog.stepNumber, FALSE, runIdToGenerator, runIdToStepAll)
  /\ UNCHANGED << ProgFrame, agentState, storage, sink, yields >>

\* The coroutine yields 'STEP'.
GenStep ==
  /\ pc = "gen"
  /\ yields < MaxYields
  /\ yields' = yields + 1
  /\ ProgReturn(FALSE, FALSE, prog.stepNumber, FALSE, runIdToGenerator, runIdToStepAll)
  /\ UNCHANGED << ProgFrame, agentState, storage, sink >>

\* The coroutine yields 'STEP_ALL'.
GenStepAll ==
  /\ pc = "gen"
  /\ yields < MaxYields
  /\ yields' = yields + 1
  /\ ProgReturn(FALSE, FALSE, prog.stepNumber, FALSE, runIdToGenerator,
                runIdToStepAll \cup {RunId})
  /\ UNCHANGED << ProgFrame, agentState, storage, sink >>

\* The coroutine yields {type: 'GENERATE_N', n}.
GenGenerateN ==
  /\ pc = "gen"
  /\ yields < MaxYields
  /\ yields' = yields + 1
  /\ ProgReturn(FALSE, FALSE, prog.stepNumber, TRUE, runIdToGenerator, runIdToStepAll)
  /\ UNCHANGED << ProgFrame, agentState, storage, sink >>

\* The coroutine yields {type: 'STEP_TEXT', text}: the text is appended as an
\* assistant message; a tool call found in it is executed inline.
GenStepText ==
  /\ pc = "gen"
  /\ yields < MaxYields
  /\ yields' = yields + 1
  /\ sink' = Append(sink, "text")
  /\ \E withTool \in BOOLEAN :
       IF withTool
       THEN /\ agentState' = [agentState EXCEPT !.messageHistory =
                 @ \o << AssistantTextMsg("text"), ToolCallMsg(nextId) >>]
            /\ prog' = [prog EXCEPT !.kind = "text", !.tool = "write_file",
                                    !.include = TRUE, !.id = nextId]
            /\ nextId' = nextId + 1
            /\ pc' = "progTool"
       ELSE /\ agentState' = [agentState EXCEPT !.messageHistory =
                 Append(@, AssistantTextMsg("text"))]
            /\ UNCHANGED << prog, nextId, pc >>
  /\ UNCHANGED << aborted, Params, clearUserPrompt, stepRes, LoopLocals, error, result, storage,
                  runIdToGenerator, runIdToStepAll, generatorsCreated, Ghost >>

\* The coroutine yields {toolName, input, includeToolCall?}:
\* executeSingleToolCall pushes the call, then dispatches it.
GenToolCall ==
  /\ pc = "gen"
  /\ yields < MaxYields
  /\ yields' = yields + 1
  /\ \E c \in HandlerCalls :
       /\ agentState' = [agentState EXCEPT !.messageHistory =
            IF c.includeToolCall THEN Append(@, ToolCallMsg(nextId)) ELSE @]
       /\ prog' = [prog EXCEPT !.kind = "tool", !.tool = c.toolName,
                               !.include = c.includeToolCall, !.id = nextId]
  /\ nextId' = nextId + 1
  /\ pc' = "progTool"
  /\ UNCHANGED << aborted, Params, clearUserPrompt, stepRes, LoopLocals, error, result, storage,
                  sink, runIdToGenerator, runIdToStepAll, generatorsCreated, Ghost >>

\* The coroutine throws, or yields a value the schema rejects.
GenThrows ==
  /\ pc = "gen"
  /\ yields < MaxYields
  /\ yields' = yields + 1
  /\ pc' = "progError"
  /\ UNCHANGED << aborted, Params, clearUserPrompt, agentState, stepRes, LoopLocals, error,
                  result, storage, sink, runIdToGenerator, runIdToStepAll, prog,
                  nextId, generatorsCreated, Ghost >>

\* The dispatched tool resolves: its result is pushed to the history.
ProgToolReturns ==
  /\ pc = "progTool"
  /\ agentState' = [agentState EXCEPT
       !.messageHistory = IF prog.include THEN Append(@, ToolResultMsg(prog.id)) ELSE @,
       !.output = IF prog.tool = "set_output" THEN "set" ELSE @]
  /\ pc' = IF prog.kind = "text" THEN "gen" ELSE "progAddStep"
  /\ UNCHANGED << aborted, Params, clearUserPrompt, stepRes, LoopLocals, error, result, storage,
                  sink, Registry, nextId, Ghost >>

ProgToolThrows ==
  /\ pc = "progTool"
  /\ pc' = "progError"
  /\ UNCHANGED << aborted, Params, clearUserPrompt, agentState, stepRes, LoopLocals, error,
                  result, storage, sink, Registry, nextId, Ghost >>

\* addAgentStep after a yielded tool call, stepNumber++, then the end_turn test.
ProgAddStepReturns ==
  /\ pc = "progAddStep"
  /\ storage' = Append(storage,
       StorageCall("addAgentStep", "completed", prog.stepNumber, FALSE, "none"))
  /\ IF prog.tool = "end_turn"
     THEN ProgReturn(TRUE, TRUE, prog.stepNumber + 1, FALSE,
                     runIdToGenerator, runIdToStepAll)
     ELSE /\ prog' = [prog EXCEPT !.stepNumber = @ + 1]
          /\ pc' = "gen"
          /\ UNCHANGED << n, totalSteps, shouldEndTurn, runIdToGenerator,
                          runIdToStepAll >>
  /\ UNCHANGED << ProgFrame, agentState, sink, yields >>

ProgAddStepThrows ==
  /\ pc = "progAddStep"
  /\ storage' = Append(storage,
       StorageCall("addAgentStep", "completed", prog.stepNumber, FALSE, "none"))
  /\ pc' = "progError"
  /\ UNCHANGED << aborted, Params, clearUserPrompt, agentState, stepRes, LoopLocals, error,
                  result, sink, Registry, nextId, Ghost >>

HandlerErrorMsg == AssistantTextMsg("Error executing handleSteps")

\* The error is reported and recorded, output.error is left unset.
HandleProgrammaticErrorNoOutput ==
  /\ pc = "progError"
  /\ sink' = Append(sink, "Error executing handleSteps")
  /\ agentState' = [agentState EXCEPT
       !.messageHistory = Append(@, HandlerErrorMsg)]
  /\ storage' = Append(storage,
       StorageCall("addAgentStep", "skipped", prog.stepNumber, FALSE, "none"))
  /\ pc' = "progErrorStep"
  /\ UNCHANGED << aborted, Params, clearUserPrompt, stepRes, LoopLocals, error, result,
                  Registry, nextId, Ghost >>

\* handleProgrammaticError: report, push the assistant message, set
\* output.error and record the step as skipped.
HandleProgrammaticError ==
  /\ pc = "progError"
  /\ sink' = Append(sink, "Error executing handleSteps")
  /\ agentState' = [agentState EXCEPT
       !.messageHistory = Append(@, HandlerErrorMsg),
       !.output = "error"]
  /\ storage' = Append(storage,
       StorageCall("addAgentStep", "skipped", prog.stepNumber, FALSE, "none"))
  /\ pc' = "progErrorStep"
  /\ UNCHANGED << aborted, Params, clearUserPrompt, stepRes, LoopLocals, error, result,
                  Registry, nextId, Ghost >>

\* The error result is returned; the finally block sees the local endTurn,
\* which is still false.
ProgErrorReturns ==
  /\ pc = "progErrorStep"
  /\ ProgReturn(FALSE, TRUE, prog.stepNumber + 1, FALSE,
                runIdToGenerator, runIdToStepAll)
  /\ UNCHANGED << ProgFrame, agentState, storage, sink, yields >>

\* addAgentStep throws inside handleProgrammaticError: the exception leaves
\* runProgrammaticStep and reaches the loop's catch block.
ProgErrorThrows ==
  /\ pc = "progErrorStep"
  /\ error' = "thrown"
  /\ pc' = "catch"
  /\ loopExit' = "exception"
  /\ UNCHANGED << aborted, Params, clearUserPrompt, agentState, stepRes, LoopLocals, result,
                  storage, sink, Registry, nextId, Counters >>

\* ------------------------------------------------------- specification
Next ==
  \/ Abort
  \/ TemplateNotFound
  \/ CancelledBeforeStart
  \/ StartAgentRun
  \/ StartAgentRunReturns
  \/ StartAgentRunFails
  \/ AssemblePrompts
  \/ AssembleThrows
  \/ LoopTop
  \/ TokenCountReturns
  \/ TokenCountThrows
  \/ ProgrammaticEnter
  \/ GenDone
  \/ GenStep
  \/ GenStepAll
  \/ GenGenerateN
  \/ GenStepText
  \/ GenToolCall
  \/ GenThrows
  \/ ProgToolReturns
  \/ ProgToolThrows
  \/ ProgAddStepReturns
  \/ ProgAddStepThrows
  \/ HandleProgrammaticError
  \/ ProgErrorReturns
  \/ ProgErrorThrows
  \/ OutputSchemaCheck
  \/ StepLimitExceeded
  \/ StepPromptThrows
  \/ SendLLMRequest
  \/ StreamReturns
  \/ StreamThrows
  \/ PromptNReturns
  \/ PromptNThrows
  \/ AddAgentStepReturns
  \/ AddAgentStepThrows
  \/ FinishAgentRun
  \/ FinishAgentRunReturns
  \/ FinishAgentRunThrows
  \/ CatchFinishAgentRun
  \/ CatchReturns
  \/ CatchFinishThrows

Spec == Init /\ [][Next]_vars

\* ------------------------------------------- shouldAgentEndTurn on its own
\* Every combination of tool calls, tool results, error flag and template
\* is handed to shouldAgentEndTurn once.
ToolSeqs == UNION { [1..k -> ToolNames] : k \in 0..MaxCalls }

InitEndTurn ==
  /\ pc = "shouldAgentEndTurn"
  /\ template \in Templates
  /\ \E calls \in ToolSeqs, results \in ToolSeqs, err \in BOOLEAN :
       turn = [toolCalls |-> calls, toolResults |-> results,
               hadToolCallError |-> err, called |-> FALSE, result |-> FALSE]
  /\ tools = NoTools
  /\ spawn = NoSpawn
  /\ SideIdle
  /\ aborted = FALSE
  /\ prompt = "undefined"
  /\ clearUserPrompt = TRUE
  /\ input = MkState(0, <<>>, 0, "undefined")
  /\ agentState = input
  /\ stepRes = NoStepRes
  /\ shouldEndTurn = FALSE
  /\ hasRetriedOutputSchema = FALSE
  /\ totalSteps = 0
  /\ nResponses = FALSE
  /\ n = FALSE
  /\ error = "none"
  /\ result = Pending
  /\ storage = <<>>
  /\ sink = <<>>
  /\ runIdToGenerator = {}
  /\ runIdToStepAll = {}
  /\ prog = NoProg
  /\ nextId = 1
  /\ yields = 0
  /\ generatorsCreated = 0
  /\ llmRequests = 0
  /\ iterations = 0
  /\ llmAfterAbort = FALSE
  /\ forcedTurns = 0
  /\ loopExit = "none"

CallShouldAgentEndTurn ==
  /\ pc = "shouldAgentEndTurn"
  /\ ~turn.called
  /\ turn' = [turn EXCEPT !.called = TRUE, !.result =
       shouldAgentEndTurn(turn.toolCalls, turn.toolResults, turn.hadToolCallError,
                          ToolNamesOf(template))]
  /\ UNCHANGED << pc, aborted, template, prompt, clearUserPrompt, input, agentState,
                  stepRes, shouldEndTurn, hasRetriedOutputSchema, totalSteps,
                  nResponses, n, error, result, storage, sink, Registry, nextId,
                  Ghost, tools, spawn, Side, Late >>

NextEndTurn == CallShouldAgentEndTurn

SpecEndTurn == InitEndTurn /\ [][NextEndTurn]_vars

\* ------------------------------------------------------------- properties
\* C1: every run that was started (startAgentRun returned a runId) has been
\* finalized by a finishAgentRun call with a terminal status by the time
\* loopAgentSteps comes back, whatever happened after the start.
C1_StartedRunFinalized ==
  (pc = "done" /\ agentState.runId = RunId) =>
    \E i \in 1..Len(storage) :
      /\ storage[i].op = "finishAgentRun"
      /\ storage[i].status \in {"completed", "cancelled", "failed"}

\* C2: the status passed to finishAgentRun is cancelled exactly when the signal
\* is aborted at that call; otherwise it is completed when the main loop ended
\* normally and failed when it ended by an exception.
C2_FinishStatus ==
  \A i \in 1..Len(storage) :
    storage[i].op = "finishAgentRun" =>
    storage[i].status =
      IF storage[i].aborted THEN "cancelled"
      ELSE IF storage[i].loopExit = "normal" THEN "completed"
      ELSE "failed"

\* C3: a run finalized with status cancelled after it had started returns the
\* output {type: "error", message: "Run cancelled by user"} with the state the
\* steps built.
C3_CancelledRunOutput ==
  ( /\ pc = "done"
    /\ result.kind = "returned"
    /\ \E i \in 1..Len(storage) :
         storage[i].op = "finishAgentRun" /\ storage[i].status = "cancelled" )
  => /\ result.output = CancelledOutput
     /\ result.agentState = agentState

\* C4: once the signal has fired, no LLM request (streaming or n-completions)
\* is issued for the run.
C4_NoRequestAfterAbort == ~llmAfterAbort

\* C5: when loopAgentSteps leaves its entry with the signal already aborted and
\* the template resolved, it returns the unchanged input state with the output
\* "Run cancelled by user", no storage call has been made and no runId is set.
C5_AbortedBeforeStart ==
  [][ ( /\ pc = "resolve"
        /\ aborted
        /\ pc' # "resolve"
        /\ result'.kind # "threw" )
      => /\ pc' = "done"
         /\ result'.kind = "returned"
         /\ result'.agentState = input
         /\ input' = input
         /\ result'.agentState.runId = 0
         /\ result'.output = CancelledOutput
         /\ storage' = <<>> ]_vars

C5_Witness ==
  /\ pc = "done"
  /\ aborted
  /\ result = Returned(input, CancelledOutput)
  /\ storage = <<>>

\* C6: the number of LLM requests of a run is bounded by the initial
\* stepsRemaining, without and with a programmatic handler.
C6_RequestsBounded == llmRequests <= input.stepsRemaining

\* C7: every turn that contacted the LLM has decremented stepsRemaining by
\* exactly 1 and nothing else has changed it: at the top of every iteration
\* stepsRemaining is the initial value minus the number of LLM requests.
C7_DecrementPerRequest ==
  pc = "loopTop" => agentState.stepsRemaining = input.stepsRemaining - llmRequests

\* C8: stepsRemaining never increases and is never negative, across LLM turns,
\* programmatic turns and force-ended turns.
C8_StepsMonotone ==
  /\ [](agentState.stepsRemaining >= 0 /\ stepRes.agentState.stepsRemaining >= 0)
  /\ [][agentState'.stepsRemaining <= agentState.stepsRemaining]_vars

C8_Witness ==
  /\ agentState.stepsRemaining < input.stepsRemaining
  /\ forcedTurns > 0
  /\ yields > 0
  /\ pc = "loopTop"

\* C9: a turn entered with stepsRemaining <= 0 issues no LLM request, sends the
\* STEP_WARNING_MESSAGE text to the sink, returns a history that keeps exactly
\* the messages without a time to live, in order, followed by one system-tagged
\* user message, and returns shouldEndTurn = true.
C9_ForcedTurn ==
  [][ ( /\ pc = "llm"
        /\ pc' # "llm"
        /\ agentState.stepsRemaining <= 0 )
      => LET before == agentState.messageHistory
             after == stepRes'.agentState.messageHistory
             kept == SelectSeq(before, LAMBDA m : m.timeToLive = NoTTL)
         IN /\ llmRequests' = llmRequests
            /\ sink' = Append(sink, STEP_WARNING_MESSAGE \o "\n\n")
            /\ Len(after) = Len(kept) + 1
            /\ SubSeq(after, 1, Len(kept)) = kept
            /\ after[Len(after)].role = "user"
            /\ after[Len(after)].content = withSystemTags("The assistant has responded too many times in a row. The assistant's turn has automatically been ended.")
            /\ stepRes'.shouldEndTurn = TRUE
            /\ stepRes'.agentState.stepsRemaining = agentState.stepsRemaining ]_vars

C9_Witness ==
  /\ pc = "addStep"
  /\ agentState.stepsRemaining <= 0
  /\ \E i \in 1..Len(agentState.messageHistory) :
       agentState.messageHistory[i].timeToLive = "userPrompt"
  /\ stepRes.shouldEndTurn
  /\ stepRes.agentState.messageHistory[Len(stepRes.agentState.messageHistory)] = StepLimitMsg
  /\ sink # <<>>
  /\ llmRequests = 0

\* C10: shouldAgentEndTurn = hasExplicitEnd when the template lists
\* task_completed, and hasExplicitEnd \/ hasNoWork otherwise; hasExplicitEnd:
\* some tool call is task_completed or end_turn; hasNoWork: no tool call and no
\* tool result is outside TOOLS_WHICH_WONT_FORCE_NEXT_STEP and no call errored.
C10_ShouldEndTurn ==
  turn.called =>
    LET hasExplicitEnd == Range(turn.toolCalls) \cap {"task_completed", "end_turn"} # {}
        hasNoWork ==
          /\ (Range(turn.toolCalls) \cup Range(turn.toolResults))
               \subseteq TOOLS_WHICH_WONT_FORCE_NEXT_STEP
          /\ ~turn.hadToolCallError
    IN turn.result = IF "task_completed" \in ToolNamesOf(template)
                     THEN hasExplicitEnd
                     ELSE hasExplicitEnd \/ hasNoWork

C10_Witness ==
  /\ turn.called
  /\ turn.result = FALSE
  /\ turn.hadToolCallError
  /\ turn.toolCalls = <<"think_deeply">>
  /\ turn.toolResults = <<"set_output">>
  /\ "task_completed" \notin ToolNamesOf(template)

\* C11 (as stated): the turn that follows the output-schema retry contacts the
\* LLM.
C11_RetryRunsLLMTurn ==
  [][ ( /\ pc = "llm"
        /\ pc' \notin {"llm", "catch"}
        /\ hasRetriedOutputSchema
        /\ agentState.messageHistory # <<>>
        /\ agentState.messageHistory[Len(agentState.messageHistory)] = OutputSchemaMsg )
      => llmRequests' = llmRequests + 1 ]_vars

\* C11 (amended): with an output schema, the first time the loop would end with
\* output unset it appends one kept user message about set_output, clears
\* shouldEndTurn and goes on to a further step-executor turn; the flag
\* hasRetriedOutputSchema is never cleared, the message is appended only when
\* the flag is set, so at most once per run; a later end of turn with output
\* unset leaves the loop with the state unchanged and output still unset.
C11_OutputSchemaRetry ==
  [][ /\ ( /\ pc = "schema"
           /\ pc' # "schema"
           /\ template.outputSchema
           /\ agentState.output = "undefined"
           /\ shouldEndTurn )
        => IF ~hasRetriedOutputSchema
           THEN /\ pc' = "llm"
                /\ hasRetriedOutputSchema'
                /\ ~shouldEndTurn'
                /\ agentState' = [agentState EXCEPT
                     !.messageHistory = Append(@, OutputSchemaMsg)]
                /\ OutputSchemaMsg.keepDuringTruncation
                /\ OutputSchemaMsg.role = "user"
           ELSE /\ pc' = "postLoop"
                /\ agentState' = agentState
                /\ agentState'.output = "undefined"
      /\ hasRetriedOutputSchema => hasRetriedOutputSchema'
      /\ ( Len(SelectSeq(agentState'.messageHistory, LAMBDA m : m = OutputSchemaMsg))
             > Len(SelectSeq(agentState.messageHistory, LAMBDA m : m = OutputSchemaMsg)) )
           => (~hasRetriedOutputSchema /\ hasRetriedOutputSchema') ]_vars

C11_Witness ==
  /\ pc = "done"
  /\ template.outputSchema
  /\ hasRetriedOutputSchema
  /\ ~aborted
  /\ llmRequests >= 1
  /\ forcedTurns = 0
  /\ result.kind = "returned"
  /\ result.agentState.output = "undefined"
  /\ Len(SelectSeq(result.agentState.messageHistory, LAMBDA m : m = OutputSchemaMsg)) = 1

\* C12: once loopAgentSteps has come back, the registry holds no coroutine and
\* no step-all membership for the run, however the run ended.
C12_RegistryClearedAtEnd ==
  pc = "done" => (RunId \notin runIdToGenerator /\ RunId \notin runIdToStepAll)

\* C13: when the programmatic handler fails, an assistant message with the
\* error text is appended to the history, output.error is set, one step with
\* status skipped is recorded (never a second one in the run), the programmatic
\* turn hands endTurn = true to the loop, and no LLM request follows.
C13_HandlerError ==
  [][ LET Skipped(st) == { i \in 1..Len(st) :
                             st[i].op = "addAgentStep" /\ st[i].status = "skipped" }
      IN /\ (pc = "progError" /\ pc' # "progError")
           => /\ agentState'.messageHistory =
                   Append(agentState.messageHistory,
                          Msg("assistant", "", "Error executing handleSteps", NoTTL, FALSE, 0))
              /\ agentState'.output = "error"
              /\ sink' = Append(sink, "Error executing handleSteps")
              /\ Len(storage') = Len(storage) + 1
              /\ Skipped(storage') = Skipped(storage) \cup {Len(storage')}
              /\ storage'[Len(storage')].stepNumber = prog.stepNumber
         /\ (pc = "progErrorStep" /\ pc' \notin {"progErrorStep", "catch"})
           => /\ shouldEndTurn'
              /\ totalSteps' = prog.stepNumber + 1
              /\ agentState' = agentState
         /\ Cardinality(Skipped(storage')) <= 1
         /\ Skipped(storage) # {} => llmRequests' = llmRequests ]_vars

C13_Witness ==
  /\ pc = "done"
  /\ result.kind = "returned"
  /\ result.agentState.output = "error"
  /\ loopExit = "normal"
  /\ ~aborted
  /\ llmRequests > 0
  /\ \E i \in 1..Len(storage) : storage[i].status = "skipped"

C14_ToolCallsMatched ==
  (pc = "done" /\ result.kind = "returned") =>
    LET h == result.agentState.messageHistory
    IN \A i \in 1..Len(h) :
         h[i].tag = "tool-call" =>
           \E j \in 1..Len(h) : h[j].role = "tool" /\ h[j].toolCallId = h[i].toolCallId

\* ---------------------------------------------------------- tool dispatcher
\* executeToolCall and executeCustomToolCall serving the tool calls of one turn.
\* A call is known by its toolCallId, which is its position in dispatch order.

\* Largest number of tool calls dispatched in one turn.
MaxDispatch == 2

\* Who dispatches: the stream processor of an LLM turn, which hands each dispatch
\* the promise the previous one returned and does not wait for it, or
\* executeSingleToolCall of the programmatic handler, which awaits each dispatch
\* and passes an already resolved promise.
Callers == {"stream", "handleSteps"}

\* A raw tool call, by what the dispatcher tests of it: whether toolName is in
\* agentTemplate.toolNames, whether it is "<server>/<tool>" and <server> is a key
\* of agentTemplate.mcpServers, whether parsing yields a ToolCallError, and (native
\* tools) whether the handler forwards the call to the client.
NativeCalls ==
  [kind : {"native"}, listed : BOOLEAN, prefix : {"none"}, valid : BOOLEAN,
   client : BOOLEAN]

CustomCalls ==
  [kind : {"custom"}, listed : BOOLEAN, prefix : {"none", "configured", "unconfigured"},
   valid : BOOLEAN, client : {TRUE}]

Dispatched(c, st) ==
  [kind |-> c.kind, listed |-> c.listed, prefix |-> c.prefix, valid |-> c.valid,
   client |-> c.client, st |-> st, out |-> "none"]

Event(type, id, output) == [type |-> type, toolCallId |-> id, output |-> output]

RestrictedNever(t, c) == FALSE

\* The tool is filtered out as restricted.
Restricted(t, c) ==
  /\ ~c.listed
  /\ t.caller # "handleSteps"
  /\ (c.kind = "custom" => c.prefix # "configured")

EmitToolCallNothing(events, id) == events

EmitToolCall(events, id) == Append(events, Event("tool_call", id, "none"))

SignalAbortedIgnored == FALSE

\* params.signal.aborted, read where a call is about to be forwarded to the host.
SignalAborted == aborted

RECURSIVE PromiseOf(_, _)
RECURSIVE previousToolCallFinished(_, _)

\* The promise call i was given as previousToolCallFinished.
previousToolCallFinished(t, i) ==
  IF t.caller = "handleSteps" \/ i = 1 THEN "resolved" ELSE PromiseOf(t, i - 1)

\* The promise the dispatch of call i returned: previousToolCallFinished itself
\* for a refused call, otherwise the chain that ends with the tool_result.
PromiseOf(t, i) ==
  CASE t.calls[i].st = "refused" -> previousToolCallFinished(t, i)
    [] t.calls[i].st \in {"resolved", "rejected"} -> t.calls[i].st
    [] OTHER -> "pending"

\* From the restriction check to the end of the synchronous part of a dispatch.
CheckAndAnnounce(t, i, c, proceed) ==
  IF Restricted(t, c) \/ ~c.valid
  THEN [t EXCEPT !.events = Append(@, Event("error", i, "none")),
                 !.calls[i] = Dispatched(c, "refused")]
  ELSE [t EXCEPT !.events = EmitToolCall(@, i),
                 !.toolCalls = Append(@, i),
                 !.calls[i] = Dispatched(c, proceed)]

CoreIdle ==
  /\ template = Template(FALSE, FALSE, FALSE)
  /\ turn = NoTurn
  /\ prompt = "undefined"
  /\ clearUserPrompt = TRUE
  /\ input = MkState(0, <<>>, 0, "undefined")
  /\ agentState = input
  /\ stepRes = NoStepRes
  /\ shouldEndTurn = FALSE
  /\ hasRetriedOutputSchema = FALSE
  /\ totalSteps = 0
  /\ nResponses = FALSE
  /\ n = FALSE
  /\ error = "none"
  /\ result = Pending
  /\ storage = <<>>
  /\ sink = <<>>
  /\ runIdToGenerator = {}
  /\ runIdToStepAll = {}
  /\ prog = NoProg
  /\ nextId = 1
  /\ yields = 0
  /\ generatorsCreated = 0
  /\ llmRequests = 0
  /\ iterations = 0
  /\ llmAfterAbort = FALSE
  /\ forcedTurns = 0
  /\ loopExit = "none"

LoopIdle == CoreIdle /\ LateIdle

LoopVars ==
  << pc, template, prompt, clearUserPrompt, input, agentState, stepRes, LoopLocals,
     error, result, storage, sink, Registry, nextId, Ghost, turn >>

CoreFrame == << LoopVars, Late >>

LoopFrame == << CoreFrame, Side >>

InitTools ==
  /\ pc = "tools"
  /\ aborted = FALSE
  /\ spawn = NoSpawn
  /\ SideIdle
  /\ LoopIdle
  /\ \E caller \in Callers, exclude \in BOOLEAN, skip \in BOOLEAN :
       /\ caller = "handleSteps" => ~skip
       /\ tools = [NoTools EXCEPT !.caller = caller,
                                  !.excludeToolFromMessageHistory = exclude,
                                  !.skipDirectResultPush = skip]

\* The abort signal fires while the turn's tool calls are being served.
ToolsAbort ==
  /\ pc = "tools"
  /\ ~aborted
  /\ aborted' = TRUE
  /\ UNCHANGED << LoopFrame, tools, spawn >>

\* A native tool call is dispatched: executeToolCall up to the invocation of the
\* handler; executeSingleToolCall first adds the assistant tool-call message.
DispatchNative ==
  /\ pc = "tools"
  /\ Len(tools.calls) < MaxDispatch
  /\ tools.caller = "handleSteps" /\ tools.calls # <<>>
       => PromiseOf(tools, Len(tools.calls)) = "resolved"
  /\ \E c \in NativeCalls :
       LET i == Len(tools.calls) + 1
           t0 == [tools EXCEPT !.calls = Append(@, Dispatched(c, "none"))]
           t1 == IF tools.caller = "handleSteps" /\ ~tools.excludeToolFromMessageHistory
                 THEN [t0 EXCEPT !.messageHistory =
                         Append(@, [role |-> "assistant", toolCallId |-> i])]
                 ELSE t0
       IN tools' = CheckAndAnnounce(t1, i, c, "invoked")
  /\ UNCHANGED << LoopFrame, aborted, spawn >>

\* A custom tool call is dispatched: executeCustomToolCall up to its await of
\* getMCPToolData.
DispatchCustom ==
  /\ pc = "tools"
  /\ tools.caller = "stream"
  /\ Len(tools.calls) < MaxDispatch
  /\ \E c \in CustomCalls :
       tools' = [tools EXCEPT !.calls = Append(@, Dispatched(c, "mcp"))]
  /\ UNCHANGED << LoopFrame, aborted, spawn >>

\* getMCPToolData has returned: executeCustomToolCall from parseRawCustomToolCall
\* to the chaining on previousToolCallFinished.
CustomParsed(i) ==
  /\ pc = "tools"
  /\ tools.calls[i].st = "mcp"
  /\ tools' = CheckAndAnnounce(tools, i, tools.calls[i], "chained")
  /\ UNCHANGED << LoopFrame, aborted, spawn >>

Request(t, i) ==
  [t EXCEPT !.requests = Append(@, [toolCallId |-> i, aborted |-> aborted]),
            !.calls[i].st = "requested"]

\* The handler of a native call, invoked at dispatch, goes on once the promise it
\* was given has settled: a client tool goes through requestClientToolCall, any
\* other tool produces its output itself.
HandlerProceeds(i) ==
  /\ pc = "tools"
  /\ tools.calls[i].st = "invoked"
  /\ previousToolCallFinished(tools, i) # "pending"
  /\ tools' =
       IF previousToolCallFinished(tools, i) = "rejected"
       THEN [tools EXCEPT !.calls[i].st = "rejected"]
       ELSE IF ~tools.calls[i].client
       THEN [tools EXCEPT !.calls[i].st = "handlerResolved", !.calls[i].out = "output"]
       ELSE IF SignalAborted
       THEN [tools EXCEPT !.calls[i].st = "handlerResolved", !.calls[i].out = "empty"]
       ELSE Request(tools, i)
  /\ UNCHANGED << LoopFrame, aborted, spawn >>

\* The first callback chained on previousToolCallFinished by executeCustomToolCall;
\* when it returns null the second callback returns at once.
CustomProceeds(i) ==
  /\ pc = "tools"
  /\ tools.calls[i].st = "chained"
  /\ previousToolCallFinished(tools, i) # "pending"
  /\ tools' =
       IF previousToolCallFinished(tools, i) = "rejected"
       THEN [tools EXCEPT !.calls[i].st = "rejected"]
       ELSE IF SignalAborted
       THEN [tools EXCEPT !.calls[i].st = "resolved", !.calls[i].out = "null"]
       ELSE Request(tools, i)
  /\ UNCHANGED << LoopFrame, aborted, spawn >>

\* requestToolCall returns the host's output.
HostReturns(i) ==
  /\ pc = "tools"
  /\ tools.calls[i].st = "requested"
  /\ tools' = [tools EXCEPT !.calls[i].st = "handlerResolved", !.calls[i].out = "output"]
  /\ UNCHANGED << LoopFrame, aborted, spawn >>

\* requestToolCall rejects.
HostFails(i) ==
  /\ pc = "tools"
  /\ tools.calls[i].st = "requested"
  /\ tools' = [tools EXCEPT !.calls[i].st = "rejected"]
  /\ UNCHANGED << LoopFrame, aborted, spawn >>

\* The callback that publishes the result of a call.
ToolResult(i) ==
  /\ pc = "tools"
  /\ tools.calls[i].st = "handlerResolved"
  /\ tools' =
       [tools EXCEPT
          !.events = Append(@, Event("tool_result", i, tools.calls[i].out)),
          !.toolResults = Append(@, i),
          !.messageHistory =
             IF ~tools.excludeToolFromMessageHistory /\ ~tools.skipDirectResultPush
             THEN Append(@, [role |-> "tool", toolCallId |-> i])
             ELSE @,
          !.calls[i].st = "resolved"]
  /\ UNCHANGED << LoopFrame, aborted, spawn >>

NextTools ==
  \/ ToolsAbort
  \/ DispatchNative
  \/ DispatchCustom
  \/ \E i \in 1..Len(tools.calls) : CustomParsed(i)
  \/ \E i \in 1..Len(tools.calls) : HandlerProceeds(i)
  \/ \E i \in 1..Len(tools.calls) : CustomProceeds(i)
  \/ \E i \in 1..Len(tools.calls) : HostReturns(i)
  \/ \E i \in 1..Len(tools.calls) : HostFails(i)
  \/ \E i \in 1..Len(tools.calls) : ToolResult(i)

SpecTools == InitTools /\ [][NextTools]_vars

\* C15: a dispatched call whose tool is not in toolNames, is not covered by a
\* configured MCP server prefix and did not come from the programmatic handler,
\* or whose input fails validation, is refused with exactly one error event and
\* nothing else: no tool_call or tool_result event, no handler invocation or
\* host request, no entry in toolCalls or toolResults, no tool message in history.
C15_RefusedDispatch ==
  \A i \in 1..Len(tools.calls) :
    LET c == tools.calls[i]
        E(type) == {j \in 1..Len(tools.events) :
                      tools.events[j].toolCallId = i /\ tools.events[j].type = type}
    IN (/\ c.st # "mcp"
        /\ \/ ~c.listed /\ c.prefix # "configured" /\ tools.caller # "handleSteps"
           \/ ~c.valid)
       => /\ c.st = "refused"
          /\ Cardinality(E("error")) = 1
          /\ E("tool_call") = {} /\ E("tool_result") = {}
          /\ i \notin Range(tools.toolCalls) \cup Range(tools.toolResults)
          /\ \A r \in Range(tools.requests) : r.toolCallId # i
          /\ \A m \in Range(tools.messageHistory) :
               m.role = "tool" => m.toolCallId # i

C15_Witness ==
  /\ Len(tools.calls) = 2
  /\ tools.caller = "stream"
  /\ tools.calls[1].kind = "custom" /\ tools.calls[1].st = "refused"
  /\ ~tools.calls[1].listed /\ tools.calls[1].prefix = "unconfigured" /\ tools.calls[1].valid
  /\ tools.calls[2].kind = "native" /\ tools.calls[2].st = "refused"
  /\ tools.calls[2].listed /\ ~tools.calls[2].valid
  /\ Len(tools.events) = 2

\* C16: on the sink every tool_result event has exactly one tool_call event with
\* the same toolCallId, and that tool_call comes before it; no toolCallId has two
\* tool_result events.
C16_CallBeforeResult ==
  \A j \in 1..Len(tools.events) :
    tools.events[j].type = "tool_result" =>
      LET calls == {k \in 1..Len(tools.events) :
                      /\ tools.events[k].type = "tool_call"
                      /\ tools.events[k].toolCallId = tools.events[j].toolCallId}
      IN /\ Cardinality(calls) = 1
         /\ \A k \in calls : k < j
         /\ \A k \in 1..Len(tools.events) :
              (/\ tools.events[k].type = "tool_result"
               /\ tools.events[k].toolCallId = tools.events[j].toolCallId) => k = j

C16_Witness ==
  /\ tools.caller = "stream"
  /\ Len(tools.calls) = 2
  /\ tools.calls[1].kind = "native" /\ tools.calls[2].kind = "custom"
  /\ \E j, k \in 1..Len(tools.events) :
       /\ tools.events[j] = Event("tool_result", 1, "output")
       /\ tools.events[k] = Event("tool_result", 2, "output")

\* The handler of native call i has been invoked, or the host request of custom
\* call i has been made.
Started(t, i) ==
  /\ i <= Len(t.calls)
  /\ IF t.calls[i].kind = "native"
     THEN t.calls[i].st # "refused"
     ELSE \E r \in Range(t.requests) : r.toolCallId = i

\* C17: in an LLM turn the handler of a call is invoked (or its host request is
\* made) only when the promise of the previous dispatch has settled.
C17_OneAtATime ==
  [][ tools.caller = "stream" =>
        \A i \in 2..MaxDispatch :
          (Started(tools', i) /\ ~Started(tools, i)) =>
            PromiseOf(tools, i - 1) # "pending" ]_vars

MaxSpawnable == 2

Absent == ""

AgentIds ==
  [publisherId : {Absent, "codebuff", "acme"},
   agentId     : {Absent, "reviewer", "thinker"},
   version     : {Absent, "1.0.0", "2.0.0"}]

\* Ids a child is asked for (one agent name is enough: the names are symmetric).
ChildIds == {c \in AgentIds : c.agentId # "thinker"}

BASE_AGENTS == {"base", "base-lite", "base-max", "base-experimental"}

ParentIds == BASE_AGENTS \cup {"reviewer"}

SpawnableLists == UNION { [1..k -> AgentIds] : k \in 0..MaxSpawnable }

RECURSIVE MatchFrom(_, _, _)
\* The for loop of getMatchingSpawn from entry k on; NoAgentId stands for null.
MatchFrom(spawnableAgents, child, k) ==
  IF k > Len(spawnableAgents) THEN NoAgentId
  ELSE LET spawnable == spawnableAgents[k] IN
    IF spawnable.agentId = Absent THEN MatchFrom(spawnableAgents, child, k + 1)
    ELSE IF /\ spawnable.agentId = child.agentId
            /\ spawnable.publisherId = child.publisherId
            /\ spawnable.version = child.version
    THEN spawnable
    ELSE IF /\ child.version = Absent /\ child.publisherId # Absent
            /\ spawnable.publisherId = child.publisherId
            /\ spawnable.agentId = child.agentId
    THEN spawnable
    ELSE IF /\ child.publisherId = Absent /\ child.version # Absent
            /\ spawnable.agentId = child.agentId
            /\ spawnable.version = child.version
    THEN spawnable
    ELSE IF /\ child.version = Absent /\ child.publisherId = Absent
            /\ spawnable.agentId = child.agentId
    THEN spawnable
    ELSE MatchFrom(spawnableAgents, child, k + 1)

getMatchingSpawnByNameOnly(spawnableAgents, child) ==
  IF \E k \in 1..Len(spawnableAgents) : spawnableAgents[k].agentId = child.agentId
  THEN spawnableAgents[CHOOSE k \in 1..Len(spawnableAgents) :
                         spawnableAgents[k].agentId = child.agentId]
  ELSE NoAgentId

getMatchingSpawn(spawnableAgents, child) ==
  IF child.agentId = Absent THEN NoAgentId ELSE MatchFrom(spawnableAgents, child, 1)

\* What validateAndGetAgentTemplate does for the spawn s: it throws (error) or
\* returns the agent type to run.
validateAndGetAgentTemplate(s) ==
  IF ~s.found
  THEN [error |-> "not found", agentType |-> NoAgentId]
  ELSE IF s.parentId \in BASE_AGENTS
  THEN [error |-> "none", agentType |-> s.child]
  ELSE LET agentType == getMatchingSpawn(s.spawnableAgents, s.child) IN
       IF agentType = NoAgentId
       THEN [error |-> "not allowed to spawn", agentType |-> NoAgentId]
       ELSE [error |-> "none", agentType |-> agentType]

InitSpawn ==
  /\ pc = "spawn"
  /\ aborted = FALSE
  /\ tools = NoTools
  /\ SideIdle
  /\ LoopIdle
  /\ \E parentId \in ParentIds, spawnable \in SpawnableLists, child \in ChildIds,
        found \in BOOLEAN :
       spawn = [NoSpawn EXCEPT !.pc = "validate", !.parentId = parentId,
                               !.spawnableAgents = spawnable, !.child = child,
                               !.found = found]

SpawnFrame == << LoopFrame, aborted, tools >>

\* The handler validates the requested child.
ValidateSpawn ==
  /\ spawn.pc = "validate"
  /\ LET r == validateAndGetAgentTemplate(spawn) IN
       spawn' = [spawn EXCEPT !.pc = IF r.error = "none" THEN "validated" ELSE "failed",
                              !.error = r.error, !.agentType = r.agentType]
  /\ UNCHANGED SpawnFrame

\* executeSubagent up to its call of loopAgentSteps.
SubagentStart ==
  /\ spawn.pc = "validated"
  /\ spawn' = [spawn EXCEPT !.pc = "running",
                            !.events = Append(@, "subagent_start"),
                            !.childRuns = @ + 1]
  /\ UNCHANGED SpawnFrame

\* loopAgentSteps of the child has returned.
SubagentFinish ==
  /\ spawn.pc = "running"
  /\ spawn' = [spawn EXCEPT !.pc = "finished",
                            !.events = Append(@, "subagent_finish")]
  /\ UNCHANGED SpawnFrame

NextSpawn == ValidateSpawn \/ SubagentStart \/ SubagentFinish

SpecSpawn == InitSpawn /\ [][NextSpawn]_vars

\* C20: once the requested child has been validated, the spawn of a child whose
\* template exists has gone through iff the parent is a base agent or some entry
\* of its spawnableAgents has the child's agent id and, for publisher and version
\* each, the child's value unless the child has none; a spawn that has not gone
\* through carries an error, and no subagent_start was emitted and no child run
\* started for it.
C20_SpawnPermission ==
  spawn.pc \notin {"none", "validate"} =>
    LET child == spawn.child
        Match(e) ==
          /\ e.agentId # Absent /\ e.agentId = child.agentId
          /\ child.publisherId = Absent \/ e.publisherId = child.publisherId
          /\ child.version = Absent \/ e.version = child.version
        permitted ==
          \/ spawn.parentId \in {"base", "base-lite", "base-max", "base-experimental"}
          \/ \E k \in 1..Len(spawn.spawnableAgents) : Match(spawn.spawnableAgents[k])
    IN /\ spawn.found => ((spawn.pc # "failed") <=> permitted)
       /\ ~spawn.found => spawn.pc = "failed"
       /\ spawn.pc = "failed" =>
            /\ spawn.error # "none"
            /\ spawn.events = <<>>
            /\ spawn.childRuns = 0

C20_Witness ==
  /\ spawn.pc = "finished"
  /\ spawn.parentId = "reviewer"
  /\ spawn.child = [publisherId |-> "codebuff", agentId |-> "reviewer", version |-> Absent]
  /\ Len(spawn.spawnableAgents) = 2
  /\ spawn.spawnableAgents[1] = [publisherId |-> "acme", agentId |-> "reviewer", version |-> "1.0.0"]
  /\ spawn.spawnableAgents[2] = [publisherId |-> "codebuff", agentId |-> "reviewer", version |-> "2.0.0"]
  /\ spawn.agentType = spawn.spawnableAgents[2]
  /\ spawn.events = << "subagent_start", "subagent_finish" >>

\* -------------------------------------------------------- subagent execution
\* executeSubagent: subagent_start, the child's loopAgentSteps, subagent_finish.
\* sub.stack holds the agentIds of the children being executed, innermost last;
\* agent 0 is the root.

\* Largest nesting depth of subagents and largest number of subagents spawned.
MaxDepth == 2
MaxChildren == 3
\* Largest number of chunks one subagent puts on the sink.
MaxChunks == 1

SubEvent(type, agentId, parentAgentId) ==
  [type |-> type, agentId |-> agentId, parentAgentId |-> parentAgentId]

Top(stack) == IF stack = <<>> THEN 0 ELSE stack[Len(stack)]

Pop(stack) == SubSeq(stack, 1, Len(stack) - 1)

InitSubagent ==
  /\ pc = "subagent"
  /\ aborted = FALSE
  /\ tools = NoTools
  /\ spawn = NoSpawn
  /\ LoopIdle
  /\ sub = NoSub
  /\ store = NoStore
  /\ credits = NoCredits
  /\ grid = NoGrid

SubFrame == << CoreFrame, aborted, tools, spawn, store, credits, grid >>

\* The agent running innermost spawns a child: executeSubagent up to its call of
\* loopAgentSteps.
ExecuteSubagent ==
  /\ pc = "subagent"
  /\ Len(sub.stack) < MaxDepth
  /\ sub.spawned < MaxChildren
  /\ LET agentId == sub.spawned + 1 IN
       sub' = [sub EXCEPT !.spawned = agentId,
                          !.events = Append(@, SubEvent("subagent_start", agentId, Top(sub.stack))),
                          !.stack = Append(@, agentId)]
  /\ UNCHANGED SubFrame

\* The innermost child passes a chunk to onResponseChunk.
ChildChunk ==
  /\ pc = "subagent"
  /\ sub.stack # <<>>
  /\ Cardinality({j \in 1..Len(sub.events) :
                    /\ sub.events[j].type = "chunk"
                    /\ sub.events[j].agentId = Top(sub.stack)}) < MaxChunks
  /\ sub' = [sub EXCEPT !.events =
               Append(@, SubEvent("chunk", Top(sub.stack), Top(Pop(sub.stack))))]
  /\ UNCHANGED SubFrame

\* loopAgentSteps of the innermost child returns (completed, cancelled, or with
\* an output of type error): executeSubagent emits subagent_finish.
ChildReturns ==
  /\ pc = "subagent"
  /\ sub.stack # <<>>
  /\ sub' = [sub EXCEPT !.events =
               Append(@, SubEvent("subagent_finish", Top(sub.stack), Top(Pop(sub.stack)))),
                        !.stack = Pop(@)]
  /\ UNCHANGED SubFrame

\* loopAgentSteps of the innermost child throws (it rethrows an exception with
\* statusCode 402): the await in executeSubagent throws and nothing is emitted.
ChildThrows ==
  /\ pc = "subagent"
  /\ sub.stack # <<>>
  /\ sub' = [sub EXCEPT !.thrown = @ \cup {Top(sub.stack)},
                        !.stack = Pop(@)]
  /\ UNCHANGED SubFrame

NextSubagent == ExecuteSubagent \/ ChildChunk \/ ChildReturns \/ ChildThrows

SpecSubagent == InitSubagent /\ [][NextSubagent]_vars

\* C21: every spawned child has one subagent_start, before all its other events;
\* a child whose execution has ended has exactly one subagent_finish, after all
\* events of the child and of the children it spawned.
C21_WellBracketed ==
  \A c \in 1..sub.spawned :
    LET Of(type) == {j \in 1..Len(sub.events) :
                       sub.events[j].agentId = c /\ sub.events[j].type = type}
        Inside == {j \in 1..Len(sub.events) :
                     sub.events[j].agentId = c \/ sub.events[j].parentAgentId = c}
    IN /\ Cardinality(Of("subagent_start")) = 1
       /\ \A s \in Of("subagent_start") : \A j \in Inside : s <= j
       /\ c \notin Range(sub.stack) =>
            /\ Cardinality(Of("subagent_finish")) = 1
            /\ \A f \in Of("subagent_finish") : \A j \in Inside : j <= f

\* ------------------------------------------------- one streamed turn, /compact
\* runAgentStep from the end of the stream on, for any prompt of the turn.

\* Prompts of a turn: none, empty, the compact command in several spellings, and
\* prompts that only resemble it.
TurnPrompts ==
  {"undefined", "", "/compact", "compact", "/Compact", "COMPACT",
   "/COMPACT please", " compact", "fix the bug"}

\* Histories at the time the stream ends: the step prompt is the last message.
TurnHistories ==
  { <<StepPromptMsg>>,
    <<InstructionsMsg, StepPromptMsg>>,
    <<EphemeralUserMsg, AssistantTextMsg("earlier"), ToolCallMsg(7), ToolResultMsg(7),
      StepPromptMsg>> }

InitCompact ==
  /\ pc = "stream"
  /\ template \in Templates
  /\ prompt \in TurnPrompts
  /\ \E h \in TurnHistories, s \in 1..(MaxSteps + 1) :
       /\ input = MkState(RunId, h, s, "undefined")
       /\ agentState = input
  /\ turn = NoTurn
  /\ tools = NoTools
  /\ spawn = NoSpawn
  /\ SideIdle
  /\ aborted = FALSE
  /\ clearUserPrompt = TRUE
  /\ stepRes = NoStepRes
  /\ shouldEndTurn = FALSE
  /\ hasRetriedOutputSchema = FALSE
  /\ totalSteps = 0
  /\ nResponses = FALSE
  /\ n = FALSE
  /\ error = "none"
  /\ result = Pending
  /\ storage = <<>>
  /\ sink = <<>>
  /\ runIdToGenerator = {}
  /\ runIdToStepAll = {}
  /\ prog = NoProg
  /\ nextId = 1
  /\ yields = 0
  /\ generatorsCreated = 0
  /\ llmRequests = 1
  /\ iterations = 1
  /\ llmAfterAbort = FALSE
  /\ forcedTurns = 0
  /\ loopExit = "none"

NextCompact == StreamReturns

SpecCompact == InitCompact /\ [][NextCompact]_vars

\* C22: when the streamed turn ends, the history runAgentStep returns is a single
\* user message, wrapped in system tags and ending with the response of the turn,
\* if the prompt is "/compact" or "compact" in any letter case; for any other
\* prompt, and without a prompt, it is the history of the turn after expiry of
\* the agentStep messages, the assistant's response included.
C22_Compact ==
  [][ (pc = "stream" /\ pc' = "addStep") =>
        LET after == stepRes'.agentState.messageHistory
        IN IF prompt \in {"/compact", "compact", "/Compact", "COMPACT"}
           THEN /\ Len(after) = 1
                /\ after[1].role = "user"
                /\ after[1].content =
                     "<system>" \o "The following is a summary: " \o FullResponse \o "</system>"
           ELSE /\ after = agentState'.messageHistory
                /\ \E i \in 1..Len(after) : after[i] = AssistantTextMsg(FullResponse)
                /\ \A i \in 1..Len(agentState.messageHistory) :
                     agentState.messageHistory[i].timeToLive # "agentStep"
                       => \E j \in 1..Len(after) : after[j] = agentState.messageHistory[i] ]_vars

C22_Witness ==
  /\ pc = "addStep"
  /\ prompt = "COMPACT"
  /\ Len(input.messageHistory) = 5
  /\ Len(stepRes.agentState.messageHistory) = 1
  /\ stepRes.agentState.messageHistory[1].content =
       withSystemTags("The following is a summary: " \o FullResponse)

\* ---------------------------------------- Message Store: filterUnfinishedToolCalls
\* Messages carry their content parts here: an assistant message is a sequence
\* of text and tool-call parts, a tool message answers one toolCallId.

\* Largest length of a parent's history handed to createAgentState.
MaxHistory == 3

Part(type, id) == [type |-> type, toolCallId |-> id]

PartMsg(role, content, id) == [role |-> role, content |-> content, toolCallId |-> id]

SpawnMsg == PartMsg("user", <<Part("text", 0)>>, 0)

PartMessages ==
  { PartMsg("user", <<Part("text", 0)>>, 0),
    PartMsg("tool", <<>>, 1),
    PartMsg("tool", <<>>, 2),
    PartMsg("assistant", <<>>, 0),
    PartMsg("assistant", <<Part("text", 0)>>, 0),
    PartMsg("assistant", <<Part("tool-call", 1)>>, 0),
    PartMsg("assistant", <<Part("tool-call", 2)>>, 0),
    PartMsg("assistant", <<Part("text", 0), Part("tool-call", 1)>>, 0),
    PartMsg("assistant", <<Part("tool-call", 1), Part("tool-call", 2)>>, 0) }

PartHistories == UNION { [1..k -> PartMessages] : k \in 0..MaxHistory }

respondedToolCallIds(messages) ==
  { messages[i].toolCallId : i \in {j \in 1..Len(messages) : messages[j].role = "tool"} }

filteredContentKeepAll(message, responded) == message.content

filteredContent(message, responded) ==
  SelectSeq(message.content,
            LAMBDA part : part.type # "tool-call" \/ part.toolCallId \in responded)

RECURSIVE FilterFrom(_, _, _)
\* The second loop of filterUnfinishedToolCalls from message k on.
FilterFrom(messages, responded, k) ==
  IF k > Len(messages) THEN <<>>
  ELSE LET message == messages[k]
           rest == FilterFrom(messages, responded, k + 1)
       IN IF message.role # "assistant" THEN <<message>> \o rest
          ELSE IF Len(filteredContent(message, responded)) > 0
          THEN <<[message EXCEPT !.content = filteredContent(message, responded)]>> \o rest
          ELSE rest

filterUnfinishedToolCalls(messages) ==
  FilterFrom(messages, respondedToolCallIds(messages), 1)

\* The messageHistory createAgentState gives the child.
ChildHistory(includeMessageHistory, parentHistory) ==
  IF includeMessageHistory
  THEN Append(filterUnfinishedToolCalls(parentHistory), SpawnMsg)
  ELSE <<>>

InitFilter ==
  /\ pc = "createAgentState"
  /\ aborted = FALSE
  /\ tools = NoTools
  /\ spawn = NoSpawn
  /\ LoopIdle
  /\ sub = NoSub
  /\ credits = NoCredits
  /\ grid = NoGrid
  /\ \E h \in PartHistories : store = [NoStore EXCEPT !.messages = h]

StoreFrame == << CoreFrame, aborted, tools, spawn, sub, credits, grid >>

\* createAgentState builds the child's history from the parent's.
CreateAgentState ==
  /\ pc = "createAgentState"
  /\ store.op = "none"
  /\ \E includeMessageHistory \in BOOLEAN :
       store' = [store EXCEPT
                   !.op = IF includeMessageHistory THEN "filter" ELSE "empty",
                   !.input = store.messages,
                   !.output = ChildHistory(includeMessageHistory, store.messages)]
  /\ UNCHANGED StoreFrame

NextFilter == CreateAgentState

SpecFilter == InitFilter /\ [][NextFilter]_vars

\* C23: the history filterUnfinishedToolCalls returns is the input history in the
\* same order, each assistant message reduced to its parts that are not unmatched
\* tool calls, and exactly the assistant messages with no such part left out; no
\* tool-call part of the result is without a tool message, and the parent's
\* history is as it was.
C23_FilterUnfinished ==
  store.op = "filter" =>
    LET in == store.input
        out == SubSeq(store.output, 1, Len(store.output) - 1)
        answered == {in[i].toolCallId : i \in {j \in 1..Len(in) : in[j].role = "tool"}}
        Unmatched(part) == part.type = "tool-call" /\ part.toolCallId \notin answered
        Reduced(m) == IF m.role = "assistant"
                      THEN [m EXCEPT !.content = SelectSeq(m.content, LAMBDA q : ~Unmatched(q))]
                      ELSE m
        Dropped(m) == m.role = "assistant" /\ \A i \in 1..Len(m.content) : Unmatched(m.content[i])
    IN /\ store.messages = in
       /\ \E f \in [1..Len(out) -> 1..Len(in)] :
            /\ \A a, b \in 1..Len(out) : a < b => f[a] < f[b]
            /\ \A a \in 1..Len(out) : out[a] = Reduced(in[f[a]])
            /\ \A i \in 1..Len(in) :
                 (\E a \in 1..Len(out) : f[a] = i) <=> ~Dropped(in[i])
       /\ \A a \in 1..Len(out) : \A i \in 1..Len(out[a].content) :
            out[a].content[i].type = "tool-call" =>
              \E b \in 1..Len(out) :
                out[b].role = "tool" /\ out[b].toolCallId = out[a].content[i].toolCallId

C23_Witness ==
  /\ store.op = "filter"
  /\ store.input =
       << PartMsg("assistant", <<Part("tool-call", 1), Part("tool-call", 2)>>, 0),
          PartMsg("tool", <<>>, 2),
          PartMsg("assistant", <<Part("tool-call", 1)>>, 0) >>
  /\ store.output =
       << PartMsg("assistant", <<Part("tool-call", 2)>>, 0), PartMsg("tool", <<>>, 2),
          SpawnMsg >>

\* ------------------------------------------- Message Store: expire and truncate
\* A history under the operations of the Message Store: append at the tail,
\* expireMessages, and trimMessagesToFitTokenLimit, whose result becomes the
\* history.

\* Largest length a history is appended to, and largest maxTotalTokens.
MaxStoreLen == 3
MaxTokens == 6

numTerminalCommandsToKeep == 5

\* shortenedMessageTokenFactor = 0.5, as a fraction.
shortenedMessageTokenFactorNum == 1
shortenedMessageTokenFactorDen == 2

replacementMessage ==
  Msg("user", "", withSystemTags("Previous message(s) omitted due to length"), NoTTL, FALSE, 0)

TerminalMsg == Msg("tool", "run_terminal_command", "terminal output", NoTTL, FALSE, 0)
SimplifiedTerminalMsg == Msg("tool", "run_terminal_command", "terminal summary", NoTTL, FALSE, 0)

\* Messages the runtime appends to a history.
StoreMessages ==
  { Msg("user", "", "short", NoTTL, FALSE, 0),
    Msg("assistant", "", "long text", NoTTL, FALSE, 0),
    UserPromptMsg("fix the bug"),
    StepPromptMsg,
    EphemeralUserMsg,
    TerminalMsg }

\* countTokensJson of one message.
countTokens(m) ==
  CASE m.content = "short" -> 1
    [] m.content = "long text" -> 4
    [] m.content = "fix the bug" -> 3
    [] m.content = "step prompt" -> 2
    [] m.content = "ephemeral" -> 1
    [] m.content = "terminal output" -> 3
    [] m.content = "terminal summary" -> 1
    [] m = replacementMessage -> 2
    [] OTHER -> 1

RECURSIVE countTokensJson(_)
countTokensJson(messages) ==
  IF messages = <<>> THEN 0
  ELSE countTokens(Head(messages)) + countTokensJson(Tail(messages))

simplifyTerminalCommandResults(m) == SimplifiedTerminalMsg

RECURSIVE ShortenFrom(_, _, _)
\* The first loop of trimMessagesToFitTokenLimit, from message i down to the
\* oldest, with simplifyTerminalHelper; the result is in history order.
ShortenFrom(messages, i, numKept) ==
  IF i = 0 THEN <<>>
  ELSE LET m == messages[i] IN
    IF m.role # "tool" \/ m.tag # "run_terminal_command"
    THEN Append(ShortenFrom(messages, i - 1, numKept), m)
    ELSE LET simplified == simplifyTerminalCommandResults(m) IN
         IF numKept < numTerminalCommandsToKeep /\ simplified # m
         THEN Append(ShortenFrom(messages, i - 1, numKept + 1), m)
         ELSE Append(ShortenFrom(messages, i - 1, numKept), simplified)

\* The entry 'deleted' of filteredMessages.
placeholder == Msg("deleted", "", "", NoTTL, FALSE, 0)

retainedOnlyWhenEnoughRemoved(message, removedTokens, available) ==
  removedTokens * shortenedMessageTokenFactorDen >=
    available * (shortenedMessageTokenFactorDen - shortenedMessageTokenFactorNum)

\* The test that lets a message through the second loop: enough has been removed
\* (removedTokens >= tokensToRemove, both sides multiplied by the factor's
\* denominator), or the message is to be kept during truncation.
retained(message, removedTokens, available) ==
  \/ removedTokens * shortenedMessageTokenFactorDen >=
       available * (shortenedMessageTokenFactorDen - shortenedMessageTokenFactorNum)
  \/ message.keepDuringTruncation

RECURSIVE FilterLoop(_, _, _, _, _)
\* The second loop, from message k on; available is maxMessageTokens - requiredTokens.
FilterLoop(shortened, k, removedTokens, filteredMessages, available) ==
  IF k > Len(shortened) THEN filteredMessages
  ELSE LET message == shortened[k] IN
    IF retained(message, removedTokens, available)
    THEN FilterLoop(shortened, k + 1, removedTokens, Append(filteredMessages, message),
                    available)
    ELSE IF filteredMessages = <<>> \/ filteredMessages[Len(filteredMessages)] # placeholder
    THEN FilterLoop(shortened, k + 1,
                    removedTokens + countTokens(message) - countTokens(replacementMessage),
                    Append(filteredMessages, placeholder), available)
    ELSE FilterLoop(shortened, k + 1, removedTokens + countTokens(message),
                    filteredMessages, available)

\* The test for 'already under the limit'.
initialTokensFit(initialTokens, maxMessageTokens) == initialTokens < maxMessageTokens

trimMessagesToFitTokenLimit(messages, systemTokens, maxTotalTokens) ==
  LET maxMessageTokens == maxTotalTokens - systemTokens IN
  IF initialTokensFit(countTokensJson(messages), maxMessageTokens) THEN messages
  ELSE LET shortened == ShortenFrom(messages, Len(messages), 0)
           requiredTokens ==
             countTokensJson(SelectSeq(shortened, LAMBDA m : m.keepDuringTruncation))
           filteredMessages ==
             FilterLoop(shortened, 1, 0, <<>>, maxMessageTokens - requiredTokens)
       IN [j \in 1..Len(filteredMessages) |->
             IF filteredMessages[j] = placeholder THEN replacementMessage
             ELSE filteredMessages[j]]

\* A history of terminal command results, one more than are kept in full.
TerminalHistory == [j \in 1..(numTerminalCommandsToKeep + 1) |-> TerminalMsg]

InitStore ==
  /\ pc = "store"
  /\ aborted = FALSE
  /\ tools = NoTools
  /\ spawn = NoSpawn
  /\ LoopIdle
  /\ sub = NoSub
  /\ credits = NoCredits
  /\ grid = NoGrid
  /\ \E h \in {<<>>, TerminalHistory} : store = [NoStore EXCEPT !.messages = h]

\* append(message)
StoreAppend ==
  /\ pc = "store"
  /\ Len(store.messages) < MaxStoreLen
  /\ \E m \in StoreMessages :
       store' = [store EXCEPT !.op = "append", !.messages = Append(@, m),
                              !.input = store.messages,
                              !.output = Append(store.messages, m)]
  /\ UNCHANGED StoreFrame

\* expireMessages(messages, endOf)
StoreExpire ==
  /\ pc = "store"
  /\ \E endOf \in {"agentStep", "userPrompt"} :
       store' = [store EXCEPT !.op = "expire", !.endOf = endOf,
                              !.input = store.messages,
                              !.output = expireMessages(store.messages, endOf),
                              !.messages = expireMessages(store.messages, endOf)]
  /\ UNCHANGED StoreFrame

\* trimMessagesToFitTokenLimit({messages, systemTokens, maxTotalTokens})
StoreTrim ==
  /\ pc = "store"
  /\ \E systemTokens \in {0, 1}, maxTotalTokens \in 1..MaxTokens :
       LET out == trimMessagesToFitTokenLimit(store.messages, systemTokens, maxTotalTokens)
       IN store' = [store EXCEPT !.op = "trim", !.systemTokens = systemTokens,
                                 !.maxTotalTokens = maxTotalTokens,
                                 !.input = store.messages,
                                 !.output = out, !.messages = out]
  /\ UNCHANGED StoreFrame

NextStore == StoreAppend \/ StoreExpire \/ StoreTrim

SpecStore == InitStore /\ [][NextStore]_vars

\* C24: expireMessages(endOf) returns, in their order, exactly the messages with
\* no timeToLive and, when endOf is agentStep, those with timeToLive userPrompt;
\* expiring the result again at the same boundary changes nothing.
C24_Expire ==
  store.op = "expire" =>
    /\ store.output =
         SelectSeq(store.input,
                   LAMBDA m : \/ m.timeToLive = "undefined"
                              \/ store.endOf = "agentStep" /\ m.timeToLive = "userPrompt")
    /\ expireMessages(store.output, store.endOf) = store.output

C24_Witness ==
  /\ store.op = "expire"
  /\ store.endOf = "agentStep"
  /\ store.input = << EphemeralUserMsg, StepPromptMsg, UserPromptMsg("fix the bug") >>
  /\ store.output = << EphemeralUserMsg, UserPromptMsg("fix the bug") >>

\* C25: the messages with keepDuringTruncation of the history handed to
\* trimMessagesToFitTokenLimit are all in its result, in the same order.
C25_KeptSurvive ==
  store.op = "trim" =>
    SelectSeq(store.output, LAMBDA m : m.keepDuringTruncation)
      = SelectSeq(store.input, LAMBDA m : m.keepDuringTruncation)

C25_Witness ==
  /\ store.op = "trim"
  /\ store.input =
       << Msg("assistant", "", "long text", NoTTL, FALSE, 0), UserPromptMsg("fix the bug"),
          Msg("user", "", "short", NoTTL, FALSE, 0) >>
  /\ store.output =
       << replacementMessage, UserPromptMsg("fix the bug"),
          Msg("user", "", "short", NoTTL, FALSE, 0) >>

\* C26: the tokens of the history trimMessagesToFitTokenLimit returns, plus the
\* system tokens, do not exceed maxTotalTokens.
C26_WithinBudget ==
  store.op = "trim" =>
    countTokensJson(store.output) + store.systemTokens <= store.maxTotalTokens

\* C27: a history whose tokens plus the system tokens do not exceed maxTotalTokens
\* is returned as it is.
C27_FixedPoint ==
  (/\ store.op = "trim"
   /\ store.systemTokens + countTokensJson(store.input) <= store.maxTotalTokens)
  => store.output = store.input

\* C28: the history trimMessagesToFitTokenLimit returns has no two consecutive
\* placeholder messages.
C28_NoAdjacentPlaceholders ==
  store.op = "trim" =>
    \A j \in 1..(Len(store.output) - 1) :
      ~(store.output[j] = replacementMessage /\ store.output[j + 1] = replacementMessage)


(***************************************************************************)
(* Credits.  Every cost of an agent's own LLM calls and tools is reported  *)
(* through onCostCalculated: the closure of runAgentStep in an LLM turn,   *)
(* the closure loopAgentSteps hands to runProgrammaticStep in a            *)
(* programmatic turn.  A child is created by createAgentState; when it has *)
(* finished, its total is added to the parent's creditsUsed.               *)
(***************************************************************************)
MaxAgents == 2
MaxCredits == 3
\* The amounts a cost callback is called with.
Costs == {1, 2}

\* The credit fields createAgentState gives a new agent, with the turn it is in.
NewAgentCredits(parentId) ==
  [ parentId |-> parentId, creditsUsed |-> 0, directCreditsUsed |-> 0,
    stepCreditsUsed |-> 0, where |-> "loop", joined |-> FALSE ]

runAgentStepOnCostDirectOnly(a, c) ==
  [a EXCEPT !.stepCreditsUsed = @ + c, !.directCreditsUsed = @ + c]

\* onCostCalculated of runAgentStep
runAgentStepOnCost(a, c) ==
  [a EXCEPT !.stepCreditsUsed = @ + c, !.creditsUsed = @ + c, !.directCreditsUsed = @ + c]

\* onCostCalculated that loopAgentSteps passes to runProgrammaticStep
loopOnCost(a, c) ==
  [a EXCEPT !.creditsUsed = @ + c, !.directCreditsUsed = @ + c]

InitCredits ==
  /\ pc = "credits"
  /\ aborted = FALSE
  /\ tools = NoTools
  /\ spawn = NoSpawn
  /\ LoopIdle
  /\ sub = NoSub
  /\ store = NoStore
  /\ grid = NoGrid
  /\ credits = [NoCredits EXCEPT !.agents = << NewAgentCredits(0) >>]

CreditsFrame == << CoreFrame, aborted, tools, spawn, sub, store, grid >>

\* A running agent spawns a child: createAgentState.
SpawnChildState ==
  /\ pc = "credits"
  /\ Len(credits.agents) < MaxAgents
  /\ \E p \in 1..Len(credits.agents) :
       /\ credits.agents[p].where # "loop"
       /\ credits' = [credits EXCEPT !.agents = Append(@, NewAgentCredits(p))]
  /\ UNCHANGED CreditsFrame

\* loopAgentSteps calls runProgrammaticStep for agent i.
BeginProgrammaticStep ==
  /\ pc = "credits"
  /\ \E i \in 1..Len(credits.agents) :
       /\ credits.agents[i].where = "loop"
       /\ ~credits.agents[i].joined
       /\ credits' = [credits EXCEPT !.agents[i].where = "programmatic"]
  /\ UNCHANGED CreditsFrame

\* loopAgentSteps calls runAgentStep for agent i; stepCreditsUsed starts at 0.
BeginAgentStep ==
  /\ pc = "credits"
  /\ \E i \in 1..Len(credits.agents) :
       /\ credits.agents[i].where = "loop"
       /\ ~credits.agents[i].joined
       /\ credits' = [credits EXCEPT !.agents[i].where = "llm",
                                     !.agents[i].stepCreditsUsed = 0]
  /\ UNCHANGED CreditsFrame

\* A cost of agent i is reported during its LLM turn.
CostInAgentStep ==
  /\ pc = "credits"
  /\ \E i \in 1..Len(credits.agents), c \in Costs :
       /\ credits.agents[i].where = "llm"
       /\ credits.agents[i].creditsUsed + c <= MaxCredits
       /\ credits' = [credits EXCEPT !.agents[i] = runAgentStepOnCost(@, c),
                                     !.costs = 1 - @,
                                     !.last = [agent |-> i, credits |-> c, via |-> "runAgentStep"]]
  /\ UNCHANGED CreditsFrame

\* A cost of agent i is reported during its programmatic turn.
CostInProgrammaticStep ==
  /\ pc = "credits"
  /\ \E i \in 1..Len(credits.agents), c \in Costs :
       /\ credits.agents[i].where = "programmatic"
       /\ credits.agents[i].creditsUsed + c <= MaxCredits
       /\ credits' = [credits EXCEPT !.agents[i] = loopOnCost(@, c),
                                     !.costs = 1 - @,
                                     !.last = [agent |-> i, credits |-> c, via |-> "loopAgentSteps"]]
  /\ UNCHANGED CreditsFrame

\* The turn of agent i returns its agent state to the loop; the copies made on the
\* way ({...agentState, stepsRemaining}) carry both counters over; stepCreditsUsed
\* is a local of the turn.
EndStep ==
  /\ pc = "credits"
  /\ \E i \in 1..Len(credits.agents) :
       /\ credits.agents[i].where # "loop"
       /\ \A k \in 1..Len(credits.agents) :
            credits.agents[k].parentId = i => credits.agents[k].joined
       /\ credits' = [credits EXCEPT !.agents[i].where = "loop",
                                     !.agents[i].stepCreditsUsed = 0]
  /\ UNCHANGED CreditsFrame

\* A finished child is joined: its total goes into the parent's creditsUsed.
JoinChild ==
  /\ pc = "credits"
  /\ \E k \in 1..Len(credits.agents) :
       LET child == credits.agents[k] IN
       /\ child.parentId # 0
       /\ child.where = "loop"
       /\ ~child.joined
       /\ credits.agents[child.parentId].creditsUsed + child.creditsUsed <= MaxCredits
       /\ credits' = [credits EXCEPT !.agents[k].joined = TRUE,
                                     !.agents[child.parentId].creditsUsed = @ + child.creditsUsed]
  /\ UNCHANGED CreditsFrame

NextCredits ==
  \/ SpawnChildState
  \/ BeginProgrammaticStep
  \/ BeginAgentStep
  \/ CostInAgentStep
  \/ CostInProgrammaticStep
  \/ EndStep
  \/ JoinChild

SpecCredits == InitCredits /\ [][NextCredits]_vars

\* C29: creditsUsed >= directCreditsUsed for every agent at every point; neither
\* counter ever decreases; a cost reported through the cost callback, in an LLM
\* turn or in a programmatic turn, is added to both counters of that agent; a new
\* child starts with both counters at 0.
C29_Credits ==
  /\ [](\A i \in 1..Len(credits.agents) :
          credits.agents[i].creditsUsed >= credits.agents[i].directCreditsUsed)
  /\ [][ /\ \A i \in 1..Len(credits.agents) :
              /\ credits'.agents[i].creditsUsed >= credits.agents[i].creditsUsed
              /\ credits'.agents[i].directCreditsUsed >= credits.agents[i].directCreditsUsed
         /\ credits'.costs # credits.costs =>
              LET i == credits'.last.agent
                  c == credits'.last.credits
              IN /\ credits'.agents[i].creditsUsed = credits.agents[i].creditsUsed + c
                 /\ credits'.agents[i].directCreditsUsed =
                      credits.agents[i].directCreditsUsed + c
         /\ Len(credits'.agents) > Len(credits.agents) =>
              LET child == credits'.agents[Len(credits'.agents)]
              IN child.creditsUsed = 0 /\ child.directCreditsUsed = 0 ]_vars

C29_Witness ==
  /\ Len(credits.agents) = 2
  /\ credits.agents[2].directCreditsUsed = 2
  /\ credits.agents[2].joined
  /\ credits.agents[1].directCreditsUsed = 1
  /\ credits.agents[1].creditsUsed = 3
  /\ credits.last.via = "loopAgentSteps"


(***************************************************************************)
(* The agent grid of the CLI: getAgentStatusSummary gives the header text  *)
(* for a list of agent blocks and the set of agents that are streaming.    *)
(* A text is kept in its pieces: `${n} ${noun} ${word}` or, with word2,    *)
(* `${n} ${word} ${m} ${word2}`.                                           *)
(***************************************************************************)
MaxBlocks == 3

AgentBlock(agentId, status) == [agentId |-> agentId, status |-> status]

\* Lists of agent blocks; the block at position j is that of agent j.
AgentBlockLists ==
  UNION { { [j \in 1..len |-> AgentBlock(j, st[j])] :
              st \in [1..len -> {"running", "complete", "failed"}] }
            : len \in 0..MaxBlocks }

\* pluralize(count, word) followed by a status word
pluralize(count, word, status) ==
  [ n |-> count, noun |-> IF count = 1 THEN word ELSE word \o "s", word |-> status,
    m |-> 0, word2 |-> "" ]

getAgentStatusSummaryCountingRunning(agentBlocks, streamingAgents) ==
  LET running == Len(SelectSeq(agentBlocks,
                       LAMBDA agent : agent.status = "running"
                                        \/ agent.agentId \in streamingAgents))
      failed == Len(SelectSeq(agentBlocks, LAMBDA agent : agent.status = "failed"))
      completed == Len(SelectSeq(agentBlocks, LAMBDA agent : agent.status = "complete"))
  IN IF running > 0 THEN pluralize(running, "agent", "running")
     ELSE IF failed > 0 /\ completed > 0
     THEN [n |-> failed, noun |-> "", word |-> "failed,", m |-> completed, word2 |-> "completed"]
     ELSE IF failed > 0 THEN pluralize(failed, "agent", "failed")
     ELSE pluralize(Len(agentBlocks), "agent", "completed")

getAgentStatusSummary(agentBlocks, streamingAgents) ==
  LET running == Len(SelectSeq(agentBlocks,
                       LAMBDA agent : agent.status = "running"
                                        \/ agent.agentId \in streamingAgents))
      failed == Len(SelectSeq(agentBlocks, LAMBDA agent : agent.status = "failed"))
      completed == Len(SelectSeq(agentBlocks, LAMBDA agent : agent.status = "complete"))
  IN IF running > 0 THEN pluralize(Len(agentBlocks), "agent", "running")
     ELSE IF failed > 0 /\ completed > 0
     THEN [n |-> failed, noun |-> "", word |-> "failed,", m |-> completed, word2 |-> "completed"]
     ELSE IF failed > 0 THEN pluralize(failed, "agent", "failed")
     ELSE pluralize(Len(agentBlocks), "agent", "completed")

InitGrid ==
  /\ pc = "grid"
  /\ aborted = FALSE
  /\ tools = NoTools
  /\ spawn = NoSpawn
  /\ LoopIdle
  /\ sub = NoSub
  /\ store = NoStore
  /\ credits = NoCredits
  /\ \E agentBlocks \in AgentBlockLists, streamingAgents \in SUBSET (1..MaxBlocks) :
       grid = [NoGrid EXCEPT !.agents = agentBlocks, !.streamingAgents = streamingAgents]

\* The grid is rendered: its header is the status summary.
RenderGrid ==
  /\ pc = "grid"
  /\ grid.summary = NoGrid.summary
  /\ grid' = [grid EXCEPT !.summary = getAgentStatusSummary(grid.agents, grid.streamingAgents)]
  /\ UNCHANGED << CoreFrame, aborted, tools, spawn, sub, store, credits >>

NextGrid == RenderGrid

SpecGrid == InitGrid /\ [][NextGrid]_vars

\* C30: the summary counts all agents as running when some agent is running or is
\* in streamingAgents; otherwise it is '<failed> failed, <completed> completed'
\* when there are failed and completed agents, '<failed> agent(s) failed' when
\* there are failed agents only, and '<total> agent(s) completed' in the
\* remaining cases.
C30_StatusSummary ==
  grid.summary # NoGrid.summary =>
    LET total == Len(grid.agents)
        idx == 1..total
        anyRunning == \E j \in idx : \/ grid.agents[j].status = "running"
                                     \/ grid.agents[j].agentId \in grid.streamingAgents
        failed == Cardinality({j \in idx : grid.agents[j].status = "failed"})
        completed == Cardinality({j \in idx : grid.agents[j].status = "complete"})
        agents(k) == IF k = 1 THEN "agent" ELSE "agents"
        s == grid.summary
    IN CASE anyRunning ->
              s.n = total /\ s.noun = agents(total) /\ s.word = "running" /\ s.word2 = ""
         [] ~anyRunning /\ failed > 0 /\ completed > 0 ->
              s.n = failed /\ s.word = "failed," /\ s.m = completed /\ s.word2 = "completed"
         [] ~anyRunning /\ failed > 0 /\ completed = 0 ->
              s.n = failed /\ s.noun = agents(failed) /\ s.word = "failed" /\ s.word2 = ""
         [] OTHER ->
              s.n = total /\ s.noun = agents(total) /\ s.word = "completed" /\ s.word2 = ""

C30_Witness ==
  /\ Len(grid.agents) = 3
  /\ \A j \in 1..3 : grid.agents[j].status # "running"
  /\ grid.agents[1].status = "failed"
  /\ grid.agents[2].agentId \in grid.streamingAgents
  /\ grid.summary = [n |-> 3, noun |-> "agents", word |-> "running", m |-> 0, word2 |-> ""]

(***************************************************************************)
(* The programmatic handler in the agent loop.                             *)
(***************************************************************************)

\* C31: a programmatic turn entered in step-all mode with stepsComplete false
\* returns to the loop without resuming the handler and leaves the mode set;
\* one entered with stepsComplete true clears the mode and resumes the
\* handler in that same turn, before the loop tests shouldEndTurn.
C31_StepAll ==
  [][ (pc = "prog" /\ RunId \in runIdToStepAll /\ pc' # pc) =>
        IF shouldEndTurn
        THEN pc' = "gen" /\ RunId \notin runIdToStepAll'
        ELSE /\ pc' = "schema"
             /\ RunId \in runIdToStepAll'
             /\ ~shouldEndTurn'
             /\ yields' = yields ]_vars

C31_Witness ==
  /\ pc = "gen"
  /\ yields = 1
  /\ iterations = 3
  /\ generatorsCreated = 1
  /\ shouldEndTurn
  /\ RunId \notin runIdToStepAll

(***************************************************************************)
(* One run's programmatic turns, seen from the handler: what each          *)
(* activeGenerator.next hands to it, and what executeSingleToolCall and    *)
(* executeSegmentsArray do with the work it yields.  A tool result's       *)
(* content is written as the toolCallId of its call.                       *)
(***************************************************************************)
MaxHandlerYields == 2
MaxSegments == 2

\* Tool calls the handler may yield; an invalid one fails parseRawToolCall.
YieldedCalls == [valid : BOOLEAN, includeToolCall : BOOLEAN]

\* Segments of a yielded STEP_TEXT: text, or a tool call (valid or not).
Segments == {"text", "tool", "invalidTool"}
SegmentLists == UNION { [1..len -> Segments] : len \in 0..MaxSegments }

\* executeToolCall for a call that came from handleSteps: an invalid call emits
\* an error and returns; a valid one runs its handler, pushes the result to
\* toolResults and, unless excluded, to the history.
executeToolCall(h, valid, excludeToolFromMessageHistory, toolCallId) ==
  IF ~valid THEN h
  ELSE [h EXCEPT !.toolResults = Append(@, toolCallId),
                 !.executed = @ \cup {toolCallId},
                 !.messageHistory =
                    IF excludeToolFromMessageHistory THEN @
                    ELSE Append(@, ToolResultMsg(toolCallId))]

\* toolResults[toolResults.length - 1]?.content
latestToolResult(h) ==
  IF h.toolResults = <<>> THEN <<>> ELSE << h.toolResults[Len(h.toolResults)] >>

executeSingleToolCallAlwaysInHistory(h, valid, includeToolCall) ==
  LET toolCallId == h.nextId
      pushed == [h EXCEPT !.nextId = @ + 1,
                          !.messageHistory = Append(@, ToolCallMsg(toolCallId))]
  IN executeToolCall(pushed, valid, FALSE, toolCallId)

\* executeSingleToolCall: the state after it; what it returns is latestToolResult.
executeSingleToolCall(h, valid, includeToolCall) ==
  LET toolCallId == h.nextId
      excludeToolFromMessageHistory == ~includeToolCall
      pushed == [h EXCEPT !.nextId = @ + 1,
                          !.messageHistory =
                             IF excludeToolFromMessageHistory THEN @
                             ELSE Append(@, ToolCallMsg(toolCallId))]
  IN executeToolCall(pushed, valid, excludeToolFromMessageHistory, toolCallId)

RECURSIVE executeSegmentsArray(_, _, _, _)
\* executeSegmentsArray from segment k on; results is its local toolResults and
\* produced the results the segments' own calls gave.
executeSegmentsArray(segments, k, h, acc) ==
  IF k > Len(segments) THEN [h |-> h, results |-> acc.results, produced |-> acc.produced]
  ELSE IF segments[k] = "text"
  THEN executeSegmentsArray(segments, k + 1,
         [h EXCEPT !.messageHistory = Append(@, AssistantTextMsg("text"))], acc)
  ELSE LET valid == segments[k] = "tool"
           after == executeSingleToolCall(h, valid, TRUE)
       IN executeSegmentsArray(segments, k + 1, after,
            [results |-> acc.results \o latestToolResult(after),
             produced |-> IF valid THEN Append(acc.produced, h.nextId) ELSE acc.produced])

InitHandler ==
  /\ pc = "handler"
  /\ aborted = FALSE
  /\ tools = NoTools
  /\ spawn = NoSpawn
  /\ CoreIdle
  /\ sub = NoSub
  /\ store = NoStore
  /\ credits = NoCredits
  /\ grid = NoGrid
  /\ cache = NoCache
  /\ childState = NoChild
  /\ handler = [NoHandler EXCEPT !.pc = "next"]

HandlerFrame ==
  << LoopVars, aborted, tools, spawn, sub, store, credits, grid, cache, childState >>

\* What every activeGenerator.next does: the handler is handed toolResult ?? [].
Resumed(h) ==
  [h EXCEPT !.received = h.toolResult, !.due = h.produced, !.yields = @ + 1]

\* The handler yields a tool call.
YieldToolCall ==
  /\ pc = "handler"
  /\ handler.pc = "next"
  /\ handler.yields < MaxHandlerYields
  /\ \E c \in YieldedCalls :
       LET h == Resumed(handler)
           after == executeSingleToolCall(h, c.valid, c.includeToolCall)
       IN handler' = [after EXCEPT
            !.toolResult = latestToolResult(after),
            !.produced = IF c.valid THEN << h.nextId >> ELSE <<>>,
            !.yielded = "tool",
            !.call = [valid |-> c.valid, includeToolCall |-> c.includeToolCall,
                      toolCallId |-> h.nextId],
            !.before = h.messageHistory]
  /\ UNCHANGED HandlerFrame

\* The handler yields {type: 'STEP_TEXT', text}.
YieldStepText ==
  /\ pc = "handler"
  /\ handler.pc = "next"
  /\ handler.yields < MaxHandlerYields
  /\ \E segments \in SegmentLists :
       LET h == Resumed(handler)
           r == executeSegmentsArray(segments, 1, h, [results |-> <<>>, produced |-> <<>>])
       IN handler' = [r.h EXCEPT
            !.toolResult = r.results,
            !.produced = r.produced,
            !.yielded = "text",
            !.before = h.messageHistory]
  /\ UNCHANGED HandlerFrame

\* The handler yields 'STEP', 'STEP_ALL' or GENERATE_N, or returns: the turn is over.
YieldStep ==
  /\ pc = "handler"
  /\ handler.pc = "next"
  /\ handler.yields < MaxHandlerYields
  /\ handler' = [Resumed(handler) EXCEPT !.pc = "returned", !.yielded = "step"]
  /\ UNCHANGED HandlerFrame

\* The loop calls runProgrammaticStep again: its toolResults and toolResult are new.
NextProgrammaticStep ==
  /\ pc = "handler"
  /\ handler.pc = "returned"
  /\ handler' = [handler EXCEPT !.pc = "next", !.toolResults = <<>>, !.toolResult = <<>>,
                                !.produced = <<>>]
  /\ UNCHANGED HandlerFrame

NextHandler == YieldToolCall \/ YieldStepText \/ YieldStep \/ NextProgrammaticStep

SpecHandler == InitHandler /\ [][NextHandler]_vars

\* C32: what the handler receives on a resumption is the result of the work it
\* yielded immediately before, and is empty when that work gave no result.
C32_ResultOfPreviousWork == handler.received = handler.due

\* C33: a yielded tool call with includeToolCall = false leaves the history as it
\* was before the call; a valid one is still executed and its result is what the
\* handler is handed next.
C33_HiddenCall ==
  (handler.yielded = "tool" /\ ~handler.call.includeToolCall) =>
    /\ handler.messageHistory = handler.before
    /\ handler.call.valid =>
         /\ handler.call.toolCallId \in handler.executed
         /\ handler.toolResult = << handler.call.toolCallId >>

C33_Witness ==
  /\ handler.yielded = "tool"
  /\ ~handler.call.includeToolCall
  /\ handler.call.valid
  /\ handler.call.toolCallId = 2
  /\ handler.toolResult = << 2 >>
  /\ Len(handler.messageHistory) = 2

\* C34: a run creates its handler coroutine at most once.
C34_OneCoroutine == generatorsCreated <= 1

\* C35: finishAgentRun is called at most once for the run.
C35_FinishedOnce ==
  Cardinality({i \in DOMAIN storage : storage[i].op = "finishAgentRun"}) <= 1

\* C37: the stepNumber values passed to addAgentStep are strictly increasing in
\* call order.
C37_StepNumbersIncrease ==
  \A i, j \in DOMAIN storage :
    (i < j /\ storage[i].op = "addAgentStep" /\ storage[j].op = "addAgentStep")
      => storage[i].stepNumber < storage[j].stepNumber

\* C36: a tool_call event on the sink is followed by a tool_result event with the
\* same toolCallId: once the promise of the call has resolved, nothing more will
\* be emitted for it, so the tool_result is there.
C36_NoOrphanToolCall ==
  \A j \in 1..Len(tools.events) :
    (/\ tools.events[j].type = "tool_call"
     /\ tools.calls[tools.events[j].toolCallId].st = "resolved")
    => \E k \in 1..Len(tools.events) :
         /\ k > j
         /\ tools.events[k].type = "tool_result"
         /\ tools.events[k].toolCallId = tools.events[j].toolCallId

\* C38: a runId in step-all mode has a coroutine in the registry, and a step
\* that removes the run's coroutine leaves the run out of step-all mode.
C38_StepAllRegistered ==
  /\ [](runIdToStepAll \subseteq runIdToGenerator)
  /\ [][ (RunId \in runIdToGenerator /\ RunId \notin runIdToGenerator')
           => RunId \notin runIdToStepAll' ]_vars

C38_Witness ==
  /\ RunId \in runIdToStepAll
  /\ RunId \in runIdToGenerator
  /\ llmRequests = 1
  /\ pc = "schema"


\* ---------------------------------------------------------------------------
\* The generator registry shared by parallel runs
\* ---------------------------------------------------------------------------

\* The runs that execute in parallel; a run's number is its runId.
Runs == {1, 2}

\* Programmatic turns one run takes, and tool calls it yields in one turn.
MaxTurns == 2

MaxTurnCalls == 1

\* The coroutine object the k-th initializeGenerator of run r returns.
Generator(r, k) == 10 * r + k

\* runIdToGenerator[runId]; 0 stands for undefined.
getGenerator(c, runId) ==
  IF runId \in DOMAIN c.runIdToGenerator THEN c.runIdToGenerator[runId] ELSE 0

\* runIdToGenerator[runId] = generator
setGenerator(c, runId, generator) ==
  [c EXCEPT !.runIdToGenerator =
     [k \in (DOMAIN c.runIdToGenerator) \cup {runId} |->
        IF k = runId THEN generator ELSE c.runIdToGenerator[k]]]

isInStepAllMode(c, runId) == runId \in c.runIdToStepAll

addToStepAllMode(c, runId) == [c EXCEPT !.runIdToStepAll = @ \cup {runId}]

removeFromStepAllMode(c, runId) == [c EXCEPT !.runIdToStepAll = @ \ {runId}]

\* Every entry and every step-all membership is dropped.
clearAgentGeneratorCache(c, runId) ==
  [c EXCEPT !.runIdToGenerator = <<>>, !.runIdToStepAll = {}]

\* delete runIdToGenerator[runId]; runIdToStepAll.delete(runId)
clearGeneratorEntry(c, runId) ==
  [c EXCEPT !.runIdToGenerator =
              [k \in (DOMAIN c.runIdToGenerator) \ {runId} |-> c.runIdToGenerator[k]],
            !.runIdToStepAll = @ \ {runId}]

\* A run between two programmatic turns: no coroutine created yet.
IdleRun == [pc |-> "loop", turns |-> 0, created |-> 0, calls |-> 0, endTurn |-> FALSE]

InitCache ==
  /\ pc = "cache"
  /\ aborted = FALSE
  /\ tools = NoTools
  /\ spawn = NoSpawn
  /\ CoreIdle
  /\ sub = NoSub
  /\ store = NoStore
  /\ credits = NoCredits
  /\ grid = NoGrid
  /\ handler = NoHandler
  /\ childState = NoChild
  /\ cache = [NoCache EXCEPT !.runs = [r \in Runs |-> IdleRun]]

CacheFrame == << LoopVars, aborted, tools, spawn, sub, store, credits, grid, handler,
                 childState >>

\* The step of run r: its position and the registry keys it has accessed.
Touched(c, r, run, keys) ==
  [c EXCEPT !.runs[r] = run, !.last = [by |-> r, keys |-> keys]]

\* runProgrammaticStep up to the step-all test, for the run whose
\* agentState.runId is r.
CacheEnter(r, stepsComplete) ==
  /\ cache.runs[r].pc = "loop"
  /\ cache.runs[r].turns < MaxTurns
  /\ LET run == cache.runs[r]
         runId == r
         existingGenerator == getGenerator(cache, runId)
         isNew == existingGenerator = 0
         stored == IF isNew
                   THEN setGenerator(cache, runId, Generator(r, run.created + 1))
                   ELSE cache
         entered == [run EXCEPT !.turns = @ + 1, !.calls = 0, !.endTurn = FALSE,
                                !.created = IF isNew THEN @ + 1 ELSE @]
     IN cache' =
          IF isInStepAllMode(stored, runId)
          THEN IF stepsComplete
               THEN Touched(removeFromStepAllMode(stored, runId), r,
                            [entered EXCEPT !.pc = "gen"], {runId})
               ELSE Touched(stored, r, entered, {runId})
          ELSE Touched(stored, r, [entered EXCEPT !.pc = "gen"], {runId})
  /\ UNCHANGED CacheFrame

\* The finally block of runProgrammaticStep.
CacheFinally(c, r, run) ==
  IF run.endTurn
  THEN Touched(clearGeneratorEntry(c, r), r, [run EXCEPT !.pc = "loop"], {r})
  ELSE Touched(c, r, [run EXCEPT !.pc = "loop"], {})

\* The coroutine of run r returns: endTurn = true.
CacheDone(r) ==
  /\ cache.runs[r].pc = "gen"
  /\ cache' = CacheFinally(cache, r, [cache.runs[r] EXCEPT !.endTurn = TRUE])
  /\ UNCHANGED CacheFrame

\* The coroutine of run r yields 'STEP'.
CacheStep(r) ==
  /\ cache.runs[r].pc = "gen"
  /\ cache' = CacheFinally(cache, r, cache.runs[r])
  /\ UNCHANGED CacheFrame

\* The coroutine of run r yields 'STEP_ALL'.
CacheStepAll(r) ==
  /\ cache.runs[r].pc = "gen"
  /\ LET added == addToStepAllMode(cache, r)
         after == CacheFinally(added, r, cache.runs[r])
     IN cache' = [after EXCEPT !.last.keys = {r}]
  /\ UNCHANGED CacheFrame

\* The coroutine of run r yields a tool call: the run waits for the tool.
CacheToolCall(r) ==
  /\ cache.runs[r].pc = "gen"
  /\ cache.runs[r].calls < MaxTurnCalls
  /\ cache' = Touched(cache, r, [cache.runs[r] EXCEPT !.pc = "await", !.calls = @ + 1], {})
  /\ UNCHANGED CacheFrame

\* The tool call of run r has finished; end_turn ends the turn.
CacheToolDone(r, isEndTurn) ==
  /\ cache.runs[r].pc = "await"
  /\ cache' =
       IF isEndTurn
       THEN CacheFinally(cache, r, [cache.runs[r] EXCEPT !.endTurn = TRUE])
       ELSE Touched(cache, r, [cache.runs[r] EXCEPT !.pc = "gen"], {})
  /\ UNCHANGED CacheFrame

\* The turn of run r throws: handleProgrammaticError, and the finally block
\* sees endTurn still false.
CacheThrow(r) ==
  /\ cache.runs[r].pc \in {"gen", "await"}
  /\ LET after == CacheFinally(cache, r, cache.runs[r])
     IN cache' = [after EXCEPT !.runs[r].pc = "ended"]
  /\ UNCHANGED CacheFrame

NextCache ==
  \E r \in Runs :
    \/ \E stepsComplete \in BOOLEAN : CacheEnter(r, stepsComplete)
    \/ CacheDone(r)
    \/ CacheStep(r)
    \/ CacheStepAll(r)
    \/ CacheToolCall(r)
    \/ \E isEndTurn \in BOOLEAN : CacheToolDone(r, isEndTurn)
    \/ CacheThrow(r)

SpecCache == InitCache /\ [][NextCache]_vars

\* C39: a step taken by one run accesses the registry only under that run's
\* own runId, and leaves the other run's coroutine and step-all membership as
\* they were.
C39_OwnEntryOnly ==
  [][ \A q \in Runs :
        q # cache'.last.by =>
          /\ q \notin cache'.last.keys
          /\ getGenerator(cache', q) = getGenerator(cache, q)
          /\ isInStepAllMode(cache', q) = isInStepAllMode(cache, q) ]_vars

\* Run 1 has ended a turn and lost its coroutine while run 2, in step-all
\* mode, still has its own.
C39_Witness ==
  /\ cache.last.by = 1
  /\ cache.last.keys = {1}
  /\ cache.runs[1].created = 1
  /\ getGenerator(cache, 1) = 0
  /\ getGenerator(cache, 2) = Generator(2, 1)
  /\ isInStepAllMode(cache, 2)


\* ---------------------------------------------------------------------------
\* The agent state of a spawned child
\* ---------------------------------------------------------------------------

\* The step budget every new child starts with.
MAX_AGENT_STEPS_DEFAULT == 25

\* Children one parent spawns.
MaxSpawned == 2

\* The ids generateCompactId can return.
CompactIds == 1..4

\* The histories a spawning parent is drawn with: empty, an unanswered tool
\* call, an answered tool call, and a text with an unanswered tool call.
ParentHistories ==
  { <<>>,
    << PartMsg("assistant", <<Part("tool-call", 1)>>, 0) >>,
    << PartMsg("assistant", <<Part("tool-call", 1)>>, 0), PartMsg("tool", <<>>, 1) >>,
    << PartMsg("user", <<Part("text", 0)>>, 0),
       PartMsg("assistant", <<Part("text", 0), Part("tool-call", 1)>>, 0) >> }

\* A parent that spawns is inside its own agent loop, which has set its runId.
ParentStates ==
  { p \in [ agentId : {1, 2},
            runId : {11},
            ancestorRunIds : {<<>>, <<13>>},
            childRunIds : {<<>>, <<14>>},
            messageHistory : ParentHistories,
            stepsRemaining : {0, 7},
            creditsUsed : {0, 2},
            directCreditsUsed : {0, 1},
            output : {"undefined", "done"},
            contextTokenCount : {0, 9} ] :
      /\ (p.directCreditsUsed = 0) = (p.creditsUsed = 0)
      /\ (p.output = "done") = (p.childRunIds # <<>>) }

createAgentStateInheritingBudget(agentType, agentTemplate, parentAgentState, agentContext, agentId) ==
  [ agentId |-> agentId,
    agentType |-> agentType,
    agentContext |-> agentContext,
    ancestorRunIds |-> Append(parentAgentState.ancestorRunIds, parentAgentState.runId),
    subagents |-> <<>>,
    childRunIds |-> <<>>,
    messageHistory |-> ChildHistory(agentTemplate.includeMessageHistory,
                                    parentAgentState.messageHistory),
    stepsRemaining |-> parentAgentState.stepsRemaining,
    creditsUsed |-> 0,
    directCreditsUsed |-> 0,
    output |-> "undefined",
    parentId |-> parentAgentState.agentId,
    systemPrompt |-> "",
    toolDefinitions |-> <<>>,
    contextTokenCount |-> parentAgentState.contextTokenCount ]

\* createAgentState, with agentId the value generateCompactId returned; a
\* parent without a runId (0) contributes 'NULL' to the ancestors.
createAgentState(agentType, agentTemplate, parentAgentState, agentContext, agentId) ==
  [ agentId |-> agentId,
    agentType |-> agentType,
    agentContext |-> agentContext,
    ancestorRunIds |->
      Append(parentAgentState.ancestorRunIds,
             IF parentAgentState.runId = 0 THEN -1 ELSE parentAgentState.runId),
    subagents |-> <<>>,
    childRunIds |-> <<>>,
    messageHistory |-> ChildHistory(agentTemplate.includeMessageHistory,
                                    parentAgentState.messageHistory),
    stepsRemaining |-> MAX_AGENT_STEPS_DEFAULT,
    creditsUsed |-> 0,
    directCreditsUsed |-> 0,
    output |-> "undefined",
    parentId |-> parentAgentState.agentId,
    systemPrompt |-> "",
    toolDefinitions |-> <<>>,
    contextTokenCount |-> parentAgentState.contextTokenCount ]

InitChild ==
  /\ pc = "child"
  /\ aborted = FALSE
  /\ tools = NoTools
  /\ spawn = NoSpawn
  /\ CoreIdle
  /\ sub = NoSub
  /\ store = NoStore
  /\ credits = NoCredits
  /\ grid = NoGrid
  /\ handler = NoHandler
  /\ cache = NoCache
  /\ \E parentAgentState \in ParentStates :
       childState = [ pc |-> "spawning", parent |-> parentAgentState,
                      templates |-> <<>>, children |-> <<>>,
                      ids |-> {parentAgentState.agentId} ]

ChildFrame == << LoopVars, aborted, tools, spawn, sub, store, credits, grid, handler, cache >>

\* The parent spawns one more child: generateCompactId returns an id not yet
\* in use and createAgentState builds the child's state.
SpawnChild ==
  /\ childState.pc = "spawning"
  /\ Len(childState.children) < MaxSpawned
  /\ \E includeMessageHistory \in BOOLEAN, agentId \in CompactIds \ childState.ids :
       LET agentTemplate == [id |-> "child", includeMessageHistory |-> includeMessageHistory]
       IN childState' =
            [childState EXCEPT
               !.templates = Append(@, agentTemplate),
               !.children = Append(@, createAgentState("child", agentTemplate,
                                                       childState.parent, <<>>, agentId)),
               !.ids = @ \cup {agentId}]
  /\ UNCHANGED ChildFrame

NextChild == SpawnChild

SpecChild == InitChild /\ [][NextChild]_vars

\* C40: every child state built for a spawn has an agentId no other agent
\* has, the parent's agentId as parentId, the parent's ancestors followed by
\* the parent's runId, the default step budget, zero credit counters, no
\* output, no child runs, the parent's contextTokenCount, and as history the
\* parent's filtered history followed by the spawn marker when the template
\* includes the history, else nothing.
C40_ChildState ==
  childState.pc = "spawning" =>
    \A i \in 1..Len(childState.children) :
      LET c == childState.children[i]
          p == childState.parent
      IN /\ c.agentId # p.agentId
         /\ \A j \in 1..Len(childState.children) :
              j # i => childState.children[j].agentId # c.agentId
         /\ c.parentId = p.agentId
         /\ c.ancestorRunIds = p.ancestorRunIds \o <<p.runId>>
         /\ c.stepsRemaining = MAX_AGENT_STEPS_DEFAULT
         /\ c.creditsUsed = 0
         /\ c.directCreditsUsed = 0
         /\ c.output = "undefined"
         /\ c.childRunIds = <<>>
         /\ c.contextTokenCount = p.contextTokenCount
         /\ c.messageHistory =
              IF childState.templates[i].includeMessageHistory
              THEN filterUnfinishedToolCalls(p.messageHistory) \o <<SpawnMsg>>
              ELSE <<>>

\* A parent with an exhausted budget, spent credits, an output, a child run
\* and an unanswered tool call has spawned one child with the history and one
\* without.
C40_Witness ==
  /\ childState.pc = "spawning"
  /\ Len(childState.children) = 2
  /\ childState.parent.stepsRemaining = 0
  /\ childState.parent.creditsUsed = 2
  /\ childState.parent.output = "done"
  /\ childState.parent.childRunIds = <<14>>
  /\ childState.parent.ancestorRunIds = <<13>>
  /\ childState.parent.contextTokenCount = 9
  /\ Len(childState.parent.messageHistory) = 2
  /\ childState.parent.messageHistory[1].role = "user"
  /\ childState.templates[1].includeMessageHistory
  /\ ~childState.templates[2].includeMessageHistory
  /\ childState.children[1].messageHistory =
       << childState.parent.messageHistory[1],
          PartMsg("assistant", <<Part("text", 0)>>, 0), SpawnMsg >>
  /\ childState.children[1].stepsRemaining = MAX_AGENT_STEPS_DEFAULT
  /\ childState.children[2].messageHistory = <<>>

====
